---- MODULE Spec2Model ----
(***************************************************************************)
(* Session management of the ERP bot (src/bot.py).                         *)
(*                                                                         *)
(* The bot runs on one asyncio event loop.  Every handler is a coroutine;  *)
(* the code between two awaits runs atomically and every await is a point  *)
(* where the other handlers of the loop may run.  A task of the model is   *)
(* one running coroutine; each action is the code from one await to the    *)
(* next.  Task 0 is run_scheduled_alerts, task ShutdownTask is on_shutdown,*)
(* the tasks in Handlers run the update handlers of the dispatcher.        *)
(*                                                                         *)
(* A session dict {"context","page","expires","cache"} is created exactly  *)
(* once per browsing context, so a session object is identified with the   *)
(* index of its context in the sequence  contexts ; a local variable       *)
(* `session` of a handler is such an index (0 is None).                    *)
(***************************************************************************)
EXTENDS Integers, Sequences, FiniteSets, TLC

\* ---------------------------------------------------------------- bounds
NumUsers == 2          \* chat ids 1..NumUsers
NumHandlers == 1       \* update handlers that may run concurrently
MaxCtx == 3            \* browsing contexts created in one run
MaxEvents == 3         \* external events of one run: updates received, clock
                       \* advances, wake-ups of the scheduler, the stop signal

\* ------------------------------------------------------ program constants
SESSION_TIMEOUT_MINUTES == 30

Users == 1..NumUsers
Handlers == 1..NumHandlers
SchedulerTask == 0
ShutdownTask == NumHandlers + 1
Tasks == 0..(NumHandlers + 1)

NoCreds == "none"
Credentials == {"good", "bad"}      \* a (username, password) pair typed by the user
DataCmds == {"cmd_attendance", "cmd_fees", "cmd_exam", "cmd_profile", "cmd_result"}
CallbackData == {"show_menu", "page_1", "screenshot", "logout"}
\* clock advances: up to the expiry of a session just stored, and past it
TickSteps == {SESSION_TIMEOUT_MINUTES, SESSION_TIMEOUT_MINUTES + 1}

VARIABLES
    user_sessions,   \* chat id -> stored session (context index), 0 when absent
    contexts,        \* every context created so far, with its session's fields
    task,            \* the coroutines of the event loop
    creds,           \* users table: the rows (chat_id, credential)
    alerts_on,       \* users table: chat id -> alerts_on column
    dlg,             \* FSM state of the login dialogue per chat
    now,             \* datetime.now(), in minutes
    events,          \* external events so far
    browser,         \* "up" until BrowserManager.stop has run; then "stopped"
                     \* (browser and driver stopped) or "close_raised"
    useAfterRelease, \* history: a browser operation was started on a closed page
    call             \* the extractor / presenter call under study (NoCall
                     \* while the handlers run)

vars == <<user_sessions, contexts, task, creds, alerts_on, dlg, now, events,
          browser, useAfterRelease, call>>

\* ------------------------------------------------------- the users table
\* a table with the row (u, f[u]) for every chat u that has a credential
UsersTable(f) == {[chat_id |-> u, cred |-> f[u]] : u \in {v \in Users : f[v] # NoCreds}}

\* get_credentials(chat_id): SELECT ... WHERE chat_id=? .fetchone()
get_credentials(u) ==
    IF \E row \in creds : row.chat_id = u
    THEN (CHOOSE row \in creds : row.chat_id = u).cred
    ELSE NoCreds

\* save_credentials: INSERT OR REPLACE on the primary key chat_id
save_credentials_Insert(table, u, cr) == table \cup {[chat_id |-> u, cred |-> cr]}
save_credentials(table, u, cr) ==
    {row \in table : row.chat_id # u} \cup {[chat_id |-> u, cred |-> cr]}

\* ------------------------------------------------------------- data shapes
IdleTask ==
    [kind |-> "idle", user |-> 0, pc |-> "idle", ret |-> "",
     sess |-> 0, newctx |-> 0, closing |-> 0, data |-> "", cred |-> "",
     todo |-> <<>>,
     \* history of the request, read by the properties only
     cached |-> FALSE, probed |-> FALSE, probeQ |-> "none", probeRes |-> "none",
     expiredSeen |-> 0, invalidSeen |-> 0, logins |-> 0, closes |-> 0,
     replaced |-> 0, loginWhileLive |-> FALSE, rec |-> "none",
     expBefore |-> 0, expAfter |-> 0,
     portal |-> "none", loginRes |-> "none", lastctx |-> 0, retried |-> FALSE,
     reported |-> FALSE, snapFor |-> 0,
     popup |-> "none",      \* how the popup click of get_password ended
     newState |-> -1]       \* what toggle_alerts returned (0 / 1), -1 before

NewContextRec(u) ==
    [owner |-> u, open |-> TRUE, pageOpen |-> TRUE, closes |-> 0,
     expires |-> 0, inflight |-> 0, home |-> FALSE, storedFor |-> {}]

\* ------------------------------------------------------- session helpers
\* is_expired(session): datetime.now() > session["expires"]
is_expired(expires, t) == t > expires

IsExpired(c) == is_expired(contexts[c].expires, now)

\* `not session or is_expired(session)` on the value of user_sessions.get(chat_id)
NeedsLogin(u) == user_sessions[u] = 0 \/ IsExpired(user_sessions[u])

\* refresh_session(chat_id): slide the expiry of the STORED session
refresh_session(cx, sessions, u, t) ==
    IF sessions[u] # 0
    THEN [cx EXCEPT ![sessions[u]].expires = t + SESSION_TIMEOUT_MINUTES]
    ELSE cx

\* a close_session that reads the session with get() and leaves it stored
PopSession_KeepsEntry(sessions, u) == sessions

\* user_sessions.pop(chat_id, None): the store after the pop
PopSession(sessions, u) == [sessions EXCEPT ![u] = 0]

\* a verify_logged_in without its try/except: the exception of the query
\* reaches the caller
verify_logged_in_NoExcept(q) ==
    CASE q = "found"  -> "true"
      [] q = "absent" -> "false"
      [] q = "raise"  -> "raised"

\* verify_logged_in(page): q is the outcome of page.query_selector; the
\* result is "true", "false", or "raised" when an exception leaves the call
verify_logged_in(q) ==
    CASE q = "found"  -> "true"
      [] q = "absent" -> "false"
      [] q = "raise"  -> "false"

\* outcomes page.query_selector can have on the page of context c
QueryOutcomes(c) ==
    IF contexts[c].pageOpen /\ contexts[c].open /\ browser = "up"
    THEN {"found", "absent", "raise"}
    ELSE {"raise"}

\* get_all_users_with_alerts(): rows of users with alerts_on = 1, in rowid order
RECURSIVE AlertUsersFrom(_)
AlertUsersFrom(u) ==
    IF u > NumUsers THEN <<>>
    ELSE (IF get_credentials(u) # NoCreds /\ alerts_on[u] = 1 THEN <<u>> ELSE <<>>)
         \o AlertUsersFrom(u + 1)
get_all_users_with_alerts == AlertUsersFrom(1)

\* list(user_sessions.keys())
RECURSIVE SessionKeysFrom(_)
SessionKeysFrom(u) ==
    IF u > NumUsers THEN <<>>
    ELSE (IF user_sessions[u] # 0 THEN <<u>> ELSE <<>>) \o SessionKeysFrom(u + 1)
SessionKeys == SessionKeysFrom(1)

\* a login that takes every page reached after the submit for the home page
Home_student_in_url_Always(o) == TRUE

\* "Home_student" in page.url, on the outcome o of the submit
Home_student_in_url(o) == o = "home"

\* a store that puts the session under every chat id
StoreSession_AllKeys(sessions, u, c) == [v \in DOMAIN sessions |-> c]

\* user_sessions[chat_id] = session
StoreSession(sessions, u, c) == [sessions EXCEPT ![u] = c]

\* history: the chat ids under which a store has put session c
StoredKeys(sessions, c) == {v \in DOMAIN sessions : sessions[v] = c}

\* what auto_login returns to its caller for the outcome o of the portal:
\* the session (1076), None after context.close() (1061), None from the
\* except clause (1079)
auto_login_returns(o) ==
    CASE o = "home"      -> "session"
      [] o = "rejected"  -> "None"
      [] o = "exception" -> "None"

\* what get_password answers to the user for the outcome o of the portal
\* (1312, 1292, 1322)
get_password_answers(o) ==
    CASE o = "home"      -> "Login Successful"
      [] o = "rejected"  -> "Login Failed"
      [] o = "exception" -> "Error"

\* the outcomes of a login attempt that did not authenticate
FailedOutcomes == {"rejected", "exception"}

\* a save that writes the default of the alerts_on column
save_credentials_alerts_Default(al, had, u) == 1

\* save_credentials: INSERT OR REPLACE keeping the alerts_on column (default 1)
save_credentials_alerts(al, had, u) == IF had THEN al[u] ELSE 1

\* toggle_alerts, `new_val`: `current` is the row of the chat (hasRow) with
\* its alerts_on column (flag)
toggle_alerts_new_val_AlwaysOn(hasRow, flag) == 1
toggle_alerts_new_val(hasRow, flag) == IF hasRow /\ flag = 1 THEN 0 ELSE 1

\* toggle_alerts(chat_id): the value returned and the alerts_on column after
\* UPDATE users SET alerts_on=? WHERE chat_id=?, which changes the row of the
\* chat when there is one
toggle_alerts(al, table, u) ==
    LET hasRow  == \E row \in table : row.chat_id = u
        new_val == toggle_alerts_new_val(hasRow, al[u])
    IN  [ret |-> new_val,
         al  |-> IF hasRow THEN [al EXCEPT ![u] = new_val] ELSE al]

\* no extractor or presenter call is under study
NoCall == [stage |-> "none"]

\* ------------------------------------------------------------------ Init
\* /tmp/erp_bot.db survives a restart (CREATE TABLE IF NOT EXISTS): the users
\* table holds the credentials of chat 1, saved by a login of a former run,
\* and no row for the other chats.
Init ==
    /\ user_sessions = [u \in Users |-> 0]
    /\ contexts = <<>>
    /\ task = [t \in Tasks |->
                 IF t = SchedulerTask
                 THEN [IdleTask EXCEPT !.kind = "run_scheduled_alerts", !.pc = "sched_sleep"]
                 ELSE IdleTask]
    /\ creds = UsersTable([u \in Users |-> IF u = 1 THEN "good" ELSE NoCreds])
    /\ alerts_on = [u \in Users |-> 1]
    /\ dlg = [u \in Users |-> "none"]
    /\ now = 0
    /\ events = 0
    /\ browser = "up"
    /\ useAfterRelease = FALSE
    /\ call = NoCall


\* --------------------------------------------------------- small helpers
\* `not session or is_expired(session)` evaluated on given values of the store
NeedsLoginIn(us, cx, u) == us[u] = 0 \/ is_expired(cx[us[u]].expires, now)

\* the page of context c can still be driven
Usable(c) == contexts[c].open /\ contexts[c].pageOpen

\* outcomes of the portal for a login with credential cr: the URL after the
\* submit contains Home_student, or it does not, or a step raised / timed out
PortalOutcomes(cr) ==
    IF cr = "good" THEN {"home", "rejected", "exception"}
    ELSE {"rejected", "exception"}

\* a fresh task record for handler `k` of chat `u`
Fresh(k, u) == [IdleTask EXCEPT !.kind = k, !.user = u]

\* a finished handler leaves the loop before anything else runs (its last
\* state stays observable for one step)
NoneFinished == \A s \in Tasks : task[s].pc \notin {"done", "crashed"}

\* a new update is dispatched to the lowest idle handler while polling runs
Dispatchable(t) ==
    /\ browser = "up"
    /\ NoneFinished
    /\ t \in Handlers
    /\ task[t].pc = "idle"
    /\ \A s \in Handlers : s < t => task[s].pc # "idle"
    /\ task[ShutdownTask].pc = "idle"
    /\ events < MaxEvents

Running(t, p) == browser = "up" /\ NoneFinished /\ task[t].pc = p

\* ------------------------------------------------- auto_login, first part
\* auto_login up to its first await (bot.py 1046-1051): read the credentials,
\* return None when there are none, else start new_context.  `label` names the
\* caller's continuation.  The record returned is the caller's task.
\* a caller that answers a None of auto_login by calling auto_login again
NoneResult_Retry(label) == "al_ctx"

\* where the caller goes on after auto_login returned None: cmd_start asks
\* for the username (1131-1137), the other handlers answer and return
NoneResult(label) == IF label = "start" THEN "start_prompt" ELSE "done"

auto_login_call(r, u, label, us, cx) ==
    IF get_credentials(u) = NoCreds
    THEN [r EXCEPT !.sess = 0, !.pc = NoneResult(label), !.ret = label]
    ELSE [r EXCEPT !.sess = 0, !.pc = "al_ctx", !.ret = label, !.cred = get_credentials(u),
                   !.loginRes = "none",
                   !.replaced = us[u],
                   !.loginWhileLive =
                       r.loginWhileLive
                       \/ (us[u] # 0 /\ ~is_expired(cx[us[u]].expires, now)
                           /\ r.invalidSeen = 0)]

\* ---------------------------------------------- close_session, first part
\* close_session up to its first await (bot.py 257-260): pop the session and,
\* when there was one, start page.close().  Returns <<task record, store>>;
\* pc "cs_none" means that close_session returned without awaiting.
close_session_call(r, u, label, us) ==
    IF us[u] = 0
    THEN <<[r EXCEPT !.pc = "cs_none", !.ret = label], PopSession(us, u)>>
    ELSE <<[r EXCEPT !.pc = "cs_page", !.ret = label, !.closing = us[u]],
           PopSession(us, u)>>

\* --------------------------------------------- run_scheduled_alerts loop
\* the `for` loop of run_scheduled_alerts from the top of an iteration to the
\* next await (bot.py 1088-1097)
RECURSIVE SchedIter(_, _, _)
SchedIter(r, us, cx) ==
    IF r.todo = <<>>
    THEN [IdleTask EXCEPT !.kind = "run_scheduled_alerts", !.pc = "sched_sleep"]
    ELSE LET u  == Head(r.todo)
             r1 == [IdleTask EXCEPT !.kind = "run_scheduled_alerts", !.user = u,
                                    !.todo = Tail(r.todo)]
         IN  IF NeedsLoginIn(us, cx, u)
             THEN IF get_credentials(u) = NoCreds
                  THEN SchedIter(r1, us, cx)
                  ELSE auto_login_call([r1 EXCEPT !.expiredSeen = us[u]],
                                       u, "sched", us, cx)
             ELSE [r1 EXCEPT !.sess = us[u], !.cached = TRUE, !.pc = "fetch"]

\* ------------------------------------------------------ on_shutdown loop
\* the `for` loop of on_shutdown from the top of an iteration to the next
\* await (bot.py 1638-1640).  Returns <<task record, store>>.
RECURSIVE ShutdownIter(_, _)
ShutdownIter(r, us) ==
    IF r.todo = <<>>
    THEN <<[r EXCEPT !.pc = "sd_stop", !.closing = 0], us>>
    ELSE LET k  == Head(r.todo)
             r1 == [r EXCEPT !.todo = Tail(r.todo), !.user = k]
             cs == close_session_call(r1, k, "shutdown", us)
         IN  IF cs[1].pc = "cs_none" THEN ShutdownIter(r1, cs[2]) ELSE cs

\* ------------------------------------------------------------ continuations
\* What the caller does, up to its next await, after close_session returned.
AfterClose(t, r, cx, us) ==
    LET u == r.user IN
    CASE r.ret = "logout" ->          \* cmd_logout 1256, menu_handler 1588
           /\ task' = [task EXCEPT ![t] = [r EXCEPT !.pc = "done"]]
           /\ contexts' = cx /\ user_sessions' = us /\ alerts_on' = alerts_on
      [] r.ret = "cb_invalid" ->      \* menu_handler 1374
           /\ task' = [task EXCEPT ![t] = auto_login_call(r, u, "cb_relogin", us, cx)]
           /\ contexts' = cx /\ user_sessions' = us /\ alerts_on' = alerts_on
      [] r.ret = "shutdown" ->        \* on_shutdown 1638-1640
           LET nx == ShutdownIter(r, us) IN
           /\ task' = [task EXCEPT ![t] = nx[1]]
           /\ contexts' = cx /\ user_sessions' = nx[2] /\ alerts_on' = alerts_on



\* `await close_session(chat_id)` called from record r: the pop and, when
\* nothing was stored, the caller's continuation in the same step
DoClose(t, r, u, label, cx, us) ==
    LET cs == close_session_call(r, u, label, us) IN
    IF cs[1].pc = "cs_none"
    THEN AfterClose(t, cs[1], cx, cs[2])
    ELSE /\ task' = [task EXCEPT ![t] = cs[1]]
         /\ contexts' = cx
         /\ user_sessions' = cs[2]
         /\ alerts_on' = alerts_on

\* menu_handler from refresh_session to the next await (1380-1594)
CbAct(t, r, cx, us) ==
    LET u  == r.user
        cx1 == refresh_session(cx, us, u, now) IN
    IF r.data = "logout"
    THEN DoClose(t, r, u, "logout", cx1, us)
    ELSE IF r.data = "toggle_alerts"      \* 1581-1584
    THEN LET tg == toggle_alerts(alerts_on, creds, u) IN
         /\ task' = [task EXCEPT ![t] = [r EXCEPT !.pc = "done", !.newState = tg.ret]]
         /\ contexts' = cx1
         /\ user_sessions' = us
         /\ alerts_on' = tg.al
    ELSE /\ task' = [task EXCEPT ![t] = [r EXCEPT !.pc = "fetch"]]
         /\ contexts' = cx1
         /\ user_sessions' = us
         /\ alerts_on' = alerts_on

\* What the caller does, up to its next await, after auto_login returned into
\* record r (r.sess is the session or 0).  Sets task', contexts',
\* user_sessions' and alerts_on'.
AfterLogin(t, r, cx, us) ==
    LET u  == r.user
        \* `if not session:` the handler answers the failure and goes on as
        \* NoneResult says
        rf == [r EXCEPT !.pc = NoneResult(r.ret), !.reported = TRUE]
    IN
    CASE r.ret = "data" ->            \* cmd_attendance .. cmd_result, 1157-1160
           /\ task' = [task EXCEPT ![t] =
                         IF r.sess # 0 THEN [r EXCEPT !.pc = "fetch"] ELSE rf]
           /\ contexts' = cx /\ user_sessions' = us /\ alerts_on' = alerts_on
      [] r.ret = "menu" ->            \* cmd_menu, 1145-1149
           /\ task' = [task EXCEPT ![t] =
                         IF r.sess # 0 THEN [r EXCEPT !.pc = "done"] ELSE rf]
           /\ contexts' = IF r.sess # 0 THEN refresh_session(cx, us, u, now) ELSE cx
           /\ user_sessions' = us /\ alerts_on' = alerts_on
      [] r.ret = "start" ->           \* cmd_start, 1128-1131
           /\ task' = [task EXCEPT ![t] =
                         IF r.sess # 0 THEN [r EXCEPT !.pc = "done"] ELSE rf]
           /\ contexts' = cx /\ user_sessions' = us /\ alerts_on' = alerts_on
      [] r.ret = "cb_restore" ->      \* menu_handler, 1367-1372
           /\ task' = [task EXCEPT ![t] =
                         IF r.sess # 0 THEN [r EXCEPT !.pc = "cb_probe"] ELSE rf]
           /\ contexts' = cx /\ user_sessions' = us /\ alerts_on' = alerts_on
      [] r.ret = "cb_relogin" ->      \* menu_handler, 1375-1381
           IF r.sess # 0 THEN CbAct(t, r, cx, us)
           ELSE /\ task' = [task EXCEPT ![t] = rf]
                /\ contexts' = cx /\ user_sessions' = us /\ alerts_on' = alerts_on
      [] r.ret = "sched" ->           \* run_scheduled_alerts, 1093-1097
           /\ task' = [task EXCEPT ![t] =
                         IF r.sess # 0 THEN [r EXCEPT !.pc = "fetch"]
                         ELSE SchedIter(r, us, cx)]
           /\ contexts' = cx /\ user_sessions' = us /\ alerts_on' = alerts_on

\* ================================================================ actions
\* ------------------------------------------------------------- the clock
Tick(d) ==
    /\ browser = "up"
    /\ NoneFinished
    /\ events < MaxEvents
    /\ events' = events + 1
    /\ now' = now + d
    /\ UNCHANGED <<call, user_sessions, contexts, task, creds, alerts_on, dlg,
                   browser, useAfterRelease>>

\* a handler coroutine has finished; its task is free again
Return(t) ==
    /\ t \in Handlers
    /\ task[t].pc \in {"done", "crashed"}
    /\ task' = [task EXCEPT ![t] = IdleTask]
    /\ UNCHANGED <<call, user_sessions, contexts, creds, alerts_on, dlg, now, events,
                   browser, useAfterRelease>>

\* ------------------------------------------------- auto_login (1045-1079)
\* the click on the popup's close button: done, or raised (no popup shown,
\* timeout of 3000 / 5000 ms)
PopupOutcomes == {"clicked", "timeout"}

\* try: await page.click("span[onclick='hide_popup();']", ...)
\* except Exception: pass                -- what the login does next
AfterPopup_Propagates(o) == IF o = "clicked" THEN "store" ELSE "raise"
AfterPopup(o) == "store"

\* await browser_manager.new_context() / context.new_page()
AutoLoginNewContext(t) ==
    /\ Running(t, "al_ctx")
    /\ Len(contexts) < MaxCtx
    /\ contexts' = Append(contexts, NewContextRec(task[t].user))
    /\ task' = [task EXCEPT ![t].newctx = Len(contexts) + 1, ![t].pc = "al_portal"]
    /\ UNCHANGED <<call, user_sessions, creds, alerts_on, dlg, now, events, browser,
                   useAfterRelease>>

\* goto, type, type, click, wait_for_load_state and the test of page.url
AutoLoginPortal(t) ==
    /\ Running(t, "al_portal")
    /\ \E o \in PortalOutcomes(task[t].cred) :
         LET c == task[t].newctx
             r == [task[t] EXCEPT !.logins = @ + 1,
                                  !.retried = @ \/ task[t].portal \in FailedOutcomes,
                                  !.portal = o, !.lastctx = c, !.loginRes = "none"]
         IN
         IF o = "exception"           \* except Exception: return None
         THEN AfterLogin(t, [r EXCEPT !.newctx = 0, !.sess = 0,
                                      !.loginRes = auto_login_returns(o)],
                         contexts, user_sessions)
         ELSE IF Home_student_in_url(o)
         THEN /\ task' = [task EXCEPT ![t] = [r EXCEPT !.pc = "al_popup"]]
              /\ contexts' = [contexts EXCEPT ![c].home = (o = "home")]
              /\ UNCHANGED <<user_sessions, alerts_on>>
         ELSE /\ task' = [task EXCEPT ![t] = [r EXCEPT !.pc = "al_close"]]
              /\ UNCHANGED <<contexts, user_sessions, alerts_on>>
    /\ UNCHANGED <<call, creds, dlg, now, events, browser, useAfterRelease>>

\* await context.close(); return None        (1059-1061)
AutoLoginReject(t) ==
    /\ Running(t, "al_close")
    /\ LET c == task[t].newctx IN
       AfterLogin(t, [task[t] EXCEPT !.newctx = 0, !.sess = 0,
                                     !.loginRes = auto_login_returns("rejected")],
                  [contexts EXCEPT ![c].open = FALSE, ![c].pageOpen = FALSE,
                                   ![c].closes = @ + 1],
                  user_sessions)
    /\ UNCHANGED <<call, creds, dlg, now, events, browser, useAfterRelease>>

\* the popup click has ended (clicked or timed out, both ignored); the
\* session is built and stored: user_sessions[chat_id] = session  (1063-1076).
\* The caller goes on in the same step, and both outcomes leave one state.
AutoLoginStore(t) ==
    /\ Running(t, "al_popup")
    /\ \E pop \in PopupOutcomes :
       LET c == task[t].newctx
           u == task[t].user IN
       IF AfterPopup(pop) = "store"
       THEN AfterLogin(t, [task[t] EXCEPT !.newctx = 0, !.sess = c,
                                          !.loginRes = auto_login_returns("home")],
                       [contexts EXCEPT
                          ![c].expires = now + SESSION_TIMEOUT_MINUTES,
                          ![c].storedFor = StoredKeys(StoreSession(user_sessions, u, c), c)],
                       StoreSession(user_sessions, u, c))
       ELSE AfterLogin(t, [task[t] EXCEPT !.newctx = 0, !.sess = 0,
                                          !.loginRes = auto_login_returns("exception")],
                       contexts, user_sessions)
    /\ UNCHANGED <<call, creds, dlg, now, events, browser, useAfterRelease>>

\* ------------------------------------------------ close_session (256-264)
\* await session["page"].close(): it closes the page, or raises and the
\* except clause skips context.close()
ClosePage(t) ==
    /\ Running(t, "cs_page")
    /\ LET c == task[t].closing IN
       \E o \in {"ok", "raise"} :
         IF o = "ok"
         THEN /\ contexts' = [contexts EXCEPT ![c].pageOpen = FALSE]
              /\ task' = [task EXCEPT ![t].pc = "cs_ctx"]
              /\ UNCHANGED <<user_sessions, alerts_on>>
         ELSE AfterClose(t, [task[t] EXCEPT !.closing = 0], contexts, user_sessions)
    /\ UNCHANGED <<call, creds, dlg, now, events, browser, useAfterRelease>>

\* await session["context"].close()
CloseContext(t) ==
    /\ Running(t, "cs_ctx")
    /\ LET c == task[t].closing IN
       AfterClose(t, [task[t] EXCEPT !.closing = 0, !.closes = @ + 1],
                  [contexts EXCEPT ![c].open = FALSE, ![c].closes = @ + 1],
                  user_sessions)
    /\ UNCHANGED <<call, creds, dlg, now, events, browser, useAfterRelease>>

\* ------------------------------- a browser operation on session["page"]
\* extract_*(page), page.goto or save_screenshot starts on the held session
OpBegin(t) ==
    /\ Running(t, "fetch")
    /\ LET c == task[t].sess IN
       /\ contexts' = [contexts EXCEPT ![c].inflight = @ + 1]
       /\ task' = [task EXCEPT ![t].pc = "busy", ![t].expBefore = contexts[c].expires]
       /\ useAfterRelease' = (useAfterRelease \/ ~Usable(c))
    /\ UNCHANGED <<call, user_sessions, creds, alerts_on, dlg, now, events, browser>>

\* the record an extractor returns: every extractor catches Exception and
\* returns {"error": ...}; on a closed page page.goto raises
ExtractOutcomes(c) == IF Usable(c) THEN {"ok", "error"} ELSE {"error"}

\* the operation of the task is an extractor call (page_1 is Attendance);
\* the "screenshot" callback only takes a screenshot and yields no record
IsExtraction(r) ==
    r.kind = "data_command" \/ (r.kind = "menu_handler" /\ r.data = "page_1")

\* the operation ends; the handler sends its answer
OpEnd(t) ==
    /\ Running(t, "busy")
    /\ t # SchedulerTask
    /\ LET c == task[t].sess IN
       \E o \in ExtractOutcomes(c) :
         /\ contexts' = [contexts EXCEPT ![c].inflight = @ - 1]
         /\ task' = [task EXCEPT ![t].pc = "done",
                                 ![t].rec = IF IsExtraction(task[t]) THEN o ELSE "none",
                                 ![t].snapFor = IF IsExtraction(task[t])
                                                THEN task[t].user ELSE 0,
                                 ![t].expAfter = contexts[c].expires]
    /\ UNCHANGED <<call, user_sessions, creds, alerts_on, dlg, now, events, browser,
                   useAfterRelease>>


\* --------------------------------------------------- cmd_start (1119-1137)
cmd_start(t, u) ==
    /\ Dispatchable(t)
    /\ events' = events + 1
    /\ task' = [task EXCEPT ![t] =
                 [Fresh("cmd_start", u) EXCEPT
                    !.pc = IF get_credentials(u) # NoCreds THEN "start_restore" ELSE "start_prompt"]]
    /\ UNCHANGED <<call, user_sessions, contexts, creds, alerts_on, dlg, now,
                   browser, useAfterRelease>>

\* session = await auto_login(message.chat.id)
StartRestore(t) ==
    /\ Running(t, "start_restore")
    /\ task' = [task EXCEPT ![t] =
                 auto_login_call(task[t], task[t].user, "start", user_sessions, contexts)]
    /\ UNCHANGED <<call, user_sessions, contexts, creds, alerts_on, dlg, now, events,
                   browser, useAfterRelease>>

\* await state.set_state(LoginStates.waiting_for_username)
StartPrompt(t) ==
    /\ Running(t, "start_prompt")
    /\ dlg' = [dlg EXCEPT ![task[t].user] = "username"]
    /\ task' = [task EXCEPT ![t].pc = "done"]
    /\ UNCHANGED <<call, user_sessions, contexts, creds, alerts_on, now, events,
                   browser, useAfterRelease>>

\* ------------------------------------------------ get_username (1260-1264)
get_username(t, u) ==
    /\ Dispatchable(t)
    /\ dlg[u] = "username"
    /\ events' = events + 1
    /\ task' = [task EXCEPT ![t] = [Fresh("get_username", u) EXCEPT !.pc = "un_set"]]
    /\ UNCHANGED <<call, user_sessions, contexts, creds, alerts_on, dlg, now,
                   browser, useAfterRelease>>

\* await state.set_state(LoginStates.waiting_for_password)
UsernameSet(t) ==
    /\ Running(t, "un_set")
    /\ dlg' = [dlg EXCEPT ![task[t].user] = "password"]
    /\ task' = [task EXCEPT ![t].pc = "done"]
    /\ UNCHANGED <<call, user_sessions, contexts, creds, alerts_on, now, events,
                   browser, useAfterRelease>>

\* ------------------------------------------------ get_password (1266-1322)
get_password(t, u, cr) ==
    /\ Dispatchable(t)
    /\ dlg[u] = "password"
    /\ events' = events + 1
    /\ task' = [task EXCEPT ![t] =
                 [Fresh("get_password", u) EXCEPT !.pc = "pw_clear", !.cred = cr]]
    /\ UNCHANGED <<call, user_sessions, contexts, creds, alerts_on, dlg, now,
                   browser, useAfterRelease>>

\* await state.clear()
PwClear(t) ==
    /\ Running(t, "pw_clear")
    /\ dlg' = [dlg EXCEPT ![task[t].user] = "none"]
    /\ task' = [task EXCEPT ![t].pc = "pw_ctx",
                            ![t].replaced = user_sessions[task[t].user]]
    /\ UNCHANGED <<call, user_sessions, contexts, creds, alerts_on, now, events,
                   browser, useAfterRelease>>

\* await browser_manager.new_context() / context.new_page()
PwNewContext(t) ==
    /\ Running(t, "pw_ctx")
    /\ Len(contexts) < MaxCtx
    /\ contexts' = Append(contexts, NewContextRec(task[t].user))
    /\ task' = [task EXCEPT ![t].newctx = Len(contexts) + 1, ![t].pc = "pw_portal"]
    /\ UNCHANGED <<call, user_sessions, creds, alerts_on, dlg, now, events, browser,
                   useAfterRelease>>

\* goto, type, type, click, wait_for_load_state and the test of page.url
PwPortal(t) ==
    /\ Running(t, "pw_portal")
    /\ \E o \in PortalOutcomes(task[t].cred) :
         LET c == task[t].newctx
             r == [task[t] EXCEPT !.logins = @ + 1, !.portal = o, !.lastctx = c]
         IN
         IF o = "exception"           \* except Exception: msg.delete, answer
         THEN /\ task' = [task EXCEPT ![t] =
                           [r EXCEPT !.newctx = 0, !.pc = "done", !.reported = TRUE,
                                     !.loginRes = get_password_answers(o)]]
              /\ UNCHANGED contexts
         ELSE IF Home_student_in_url(o)
         THEN /\ task' = [task EXCEPT ![t] = [r EXCEPT !.pc = "pw_popup"]]
              /\ contexts' = [contexts EXCEPT ![c].home = (o = "home")]
         ELSE /\ task' = [task EXCEPT ![t] = [r EXCEPT !.pc = "pw_close"]]
              /\ UNCHANGED contexts
    /\ UNCHANGED <<call, user_sessions, creds, alerts_on, dlg, now, events,
                   browser, useAfterRelease>>

\* save_screenshot, answer_photo, context.close (1291-1295); when the
\* screenshot or the photo raises, context.close() is not reached
PwReject(t) ==
    /\ Running(t, "pw_close")
    /\ LET c == task[t].newctx IN
       \E o \in {"closed", "raised"} :
         /\ contexts' = IF o = "closed"
                        THEN [contexts EXCEPT ![c].open = FALSE, ![c].pageOpen = FALSE,
                                              ![c].closes = @ + 1]
                        ELSE contexts
         /\ task' = [task EXCEPT
                       ![t].newctx = 0, ![t].pc = "done", ![t].reported = TRUE,
                       ![t].loginRes = get_password_answers(
                                         IF o = "closed" THEN "rejected" ELSE "exception")]
    /\ UNCHANGED <<call, user_sessions, creds, alerts_on, dlg, now, events, browser,
                   useAfterRelease>>

\* popup click ended; save_credentials; user_sessions[chat_id] = {...}
PwStore(t) ==
    /\ Running(t, "pw_popup")
    /\ \E pop \in PopupOutcomes :
       LET c == task[t].newctx
           u == task[t].user IN
       IF AfterPopup(pop) = "store"
       THEN /\ alerts_on' = [alerts_on EXCEPT
                               ![u] = save_credentials_alerts(
                                        alerts_on, get_credentials(u) # NoCreds, u)]
            /\ creds' = save_credentials(creds, u, task[t].cred)
            /\ contexts' = [contexts EXCEPT
                              ![c].expires = now + SESSION_TIMEOUT_MINUTES,
                              ![c].storedFor =
                                  StoredKeys(StoreSession(user_sessions, u, c), c)]
            /\ user_sessions' = StoreSession(user_sessions, u, c)
            /\ task' = [task EXCEPT ![t].newctx = 0, ![t].sess = c, ![t].pc = "done",
                                    ![t].popup = pop,
                                    ![t].loginRes = get_password_answers("home")]
       ELSE /\ task' = [task EXCEPT ![t].newctx = 0, ![t].pc = "done",
                                    ![t].reported = TRUE, ![t].popup = pop,
                                    ![t].loginRes = get_password_answers("exception")]
            /\ UNCHANGED <<alerts_on, creds, contexts, user_sessions>>
    /\ UNCHANGED <<call, dlg, now, events, browser, useAfterRelease>>


\* ---------------------------------------------------- cmd_menu (1139-1149)
cmd_menu(t, u) ==
    /\ Dispatchable(t)
    /\ events' = events + 1
    /\ LET r == Fresh("cmd_menu", u) IN
       IF NeedsLogin(u)
       THEN /\ task' = [task EXCEPT ![t] =
                         auto_login_call([r EXCEPT !.expiredSeen = user_sessions[u]],
                                         u, "menu", user_sessions, contexts)]
            /\ UNCHANGED contexts
       ELSE /\ task' = [task EXCEPT ![t] =
                         [r EXCEPT !.sess = user_sessions[u], !.cached = TRUE,
                                   !.pc = "done"]]
            /\ contexts' = refresh_session(contexts, user_sessions, u, now)
    /\ UNCHANGED <<call, user_sessions, creds, alerts_on, dlg, now, browser,
                   useAfterRelease>>

\* ------- cmd_attendance, cmd_fees, cmd_exam, cmd_profile, cmd_result
\* the five handlers differ in the extractor only (1151-1226)
DataCommand(t, u, cmd) ==
    /\ Dispatchable(t)
    /\ events' = events + 1
    /\ cmd \in DataCmds
    /\ LET r == Fresh("data_command", u) IN
       task' = [task EXCEPT ![t] =
                 IF NeedsLogin(u)
                 THEN auto_login_call([r EXCEPT !.expiredSeen = user_sessions[u]],
                                      u, "data", user_sessions, contexts)
                 ELSE [r EXCEPT !.sess = user_sessions[u], !.cached = TRUE,
                                !.pc = "fetch"]]
    /\ UNCHANGED <<call, user_sessions, contexts, creds, alerts_on, dlg, now,
                   browser, useAfterRelease>>

cmd_attendance(t, u) == DataCommand(t, u, "cmd_attendance")
cmd_fees(t, u)       == DataCommand(t, u, "cmd_fees")
cmd_exam(t, u)       == DataCommand(t, u, "cmd_exam")
cmd_profile(t, u)    == DataCommand(t, u, "cmd_profile")
cmd_result(t, u)     == DataCommand(t, u, "cmd_result")

\* -------------------------------------------------- cmd_logout (1253-1256)
cmd_logout(t, u) ==
    /\ Dispatchable(t)
    /\ events' = events + 1
    /\ DoClose(t, Fresh("cmd_logout", u), u, "logout", contexts, user_sessions)
    /\ UNCHANGED <<call, creds, dlg, now, browser, useAfterRelease>>

\* -------------------------------------------------- cmd_alerts (1243-1251)
cmd_alerts(t, u) ==
    /\ Dispatchable(t)
    /\ events' = events + 1
    /\ IF get_credentials(u) = NoCreds       \* "You must log in first."
       THEN /\ task' = [task EXCEPT ![t] = [Fresh("cmd_alerts", u) EXCEPT !.pc = "done"]]
            /\ UNCHANGED alerts_on
       ELSE LET tg == toggle_alerts(alerts_on, creds, u) IN
            /\ task' = [task EXCEPT ![t] =
                          [Fresh("cmd_alerts", u) EXCEPT !.pc = "done",
                                                         !.newState = tg.ret]]
            /\ alerts_on' = tg.al
    /\ UNCHANGED <<call, user_sessions, contexts, creds, dlg, now, browser,
                   useAfterRelease>>

\* ------------------------------------------------ menu_handler (1353-1594)
menu_handler(t, u, d) ==
    /\ Dispatchable(t)
    /\ events' = events + 1
    /\ LET r == [Fresh("menu_handler", u) EXCEPT !.data = d] IN
       task' = [task EXCEPT ![t] =
                 IF d = "show_menu" THEN [r EXCEPT !.pc = "done"]
                 ELSE IF NeedsLogin(u)
                 THEN [r EXCEPT !.expiredSeen = user_sessions[u], !.pc = "cb_restore"]
                 ELSE [r EXCEPT !.sess = user_sessions[u], !.cached = TRUE,
                                !.pc = "cb_probe"]]
    /\ UNCHANGED <<call, user_sessions, contexts, creds, alerts_on, dlg, now,
                   browser, useAfterRelease>>

\* callback.answer("Restoring session...") returned: session = await auto_login
CbRestore(t) ==
    /\ Running(t, "cb_restore")
    /\ task' = [task EXCEPT ![t] =
                 auto_login_call(task[t], task[t].user, "cb_restore",
                                 user_sessions, contexts)]
    /\ UNCHANGED <<call, user_sessions, contexts, creds, alerts_on, dlg, now, events,
                   browser, useAfterRelease>>

\* if not await verify_logged_in(session["page"]): close_session, auto_login
CbProbe(t) ==
    /\ Running(t, "cb_probe")
    /\ LET c == task[t].sess
           u == task[t].user IN
       /\ useAfterRelease' = (useAfterRelease \/ ~Usable(c))
       /\ \E q \in QueryOutcomes(c) :
            LET res == verify_logged_in(q)
                r   == [task[t] EXCEPT !.probed = TRUE, !.probeQ = q, !.probeRes = res]
            IN  CASE res = "true" -> CbAct(t, r, contexts, user_sessions)
                  [] res = "false" ->
                       DoClose(t, [r EXCEPT !.invalidSeen = c], u, "cb_invalid",
                               contexts, user_sessions)
                  [] OTHER ->        \* the exception leaves menu_handler
                       /\ task' = [task EXCEPT ![t] = [r EXCEPT !.pc = "crashed"]]
                       /\ UNCHANGED <<contexts, user_sessions, alerts_on>>
    /\ UNCHANGED <<call, creds, dlg, now, events, browser>>

\* ---------------------------------------- run_scheduled_alerts (1083-1115)
\* asyncio.sleep returned: users = get_all_users_with_alerts(); first iteration
SchedWake(t) ==
    /\ t = SchedulerTask
    /\ Running(t, "sched_sleep")
    /\ events < MaxEvents
    /\ events' = events + 1
    /\ task' = [task EXCEPT ![t] =
                 SchedIter([task[t] EXCEPT !.todo = get_all_users_with_alerts],
                           user_sessions, contexts)]
    /\ UNCHANGED <<call, user_sessions, contexts, creds, alerts_on, dlg, now,
                   browser, useAfterRelease>>

\* extract_attendance returned; the record has no "subjects" key, so `low`
\* stays empty and the loop goes on to the next user without an await
SchedOpEnd(t) ==
    /\ t = SchedulerTask
    /\ Running(t, "busy")
    /\ LET c == task[t].sess IN
       \E o \in ExtractOutcomes(c) :
         LET cx == [contexts EXCEPT ![c].inflight = @ - 1] IN
         /\ contexts' = cx
         /\ task' = [task EXCEPT ![t] = SchedIter(task[t], user_sessions, cx)]
    /\ UNCHANGED <<call, user_sessions, creds, alerts_on, dlg, now, events, browser,
                   useAfterRelease>>

\* ------------------------------------------------- on_shutdown (1637-1641)
on_shutdown(t) ==
    /\ t = ShutdownTask
    /\ Running(t, "idle")
    /\ events < MaxEvents
    /\ events' = events + 1
    /\ LET nx == ShutdownIter([IdleTask EXCEPT !.kind = "on_shutdown",
                                               !.todo = SessionKeys],
                              user_sessions) IN
       /\ task' = [task EXCEPT ![t] = nx[1]]
       /\ user_sessions' = nx[2]
    /\ UNCHANGED <<call, contexts, creds, alerts_on, dlg, now, browser,
                   useAfterRelease>>

\* await browser_manager.stop()
\* browser.close() stops the browser, or raises: then playwright.stop() is
\* not reached and the exception leaves stop() and on_shutdown  (171-176)
BrowserStop(t) ==
    /\ t = ShutdownTask
    /\ Running(t, "sd_stop")
    /\ \E o \in {"closed", "raise"} :
         IF o = "closed"
         THEN /\ browser' = "stopped"
              /\ task' = [task EXCEPT ![t].pc = "sd_done"]
         ELSE /\ browser' = "close_raised"
              /\ task' = [task EXCEPT ![t].pc = "sd_raised"]
    /\ UNCHANGED <<call, user_sessions, contexts, creds, alerts_on, dlg, now, events,
                   useAfterRelease>>

\* ------------------------------------------------------------------ Next
Next ==
    \/ \E d \in TickSteps : Tick(d)
    \/ \E t \in Tasks : Return(t)
    \/ \E t \in Tasks : AutoLoginNewContext(t)
    \/ \E t \in Tasks : AutoLoginPortal(t)
    \/ \E t \in Tasks : AutoLoginReject(t)
    \/ \E t \in Tasks : AutoLoginStore(t)
    \/ \E t \in Tasks : ClosePage(t)
    \/ \E t \in Tasks : CloseContext(t)
    \/ \E t \in Tasks : OpBegin(t)
    \/ \E t \in Tasks : OpEnd(t)
    \/ \E t \in Tasks, u \in Users : cmd_start(t, u)
    \/ \E t \in Tasks : StartRestore(t)
    \/ \E t \in Tasks : StartPrompt(t)
    \/ \E t \in Tasks, u \in Users : get_username(t, u)
    \/ \E t \in Tasks : UsernameSet(t)
    \/ \E t \in Tasks, u \in Users, cr \in Credentials : get_password(t, u, cr)
    \/ \E t \in Tasks : PwClear(t)
    \/ \E t \in Tasks : PwNewContext(t)
    \/ \E t \in Tasks : PwPortal(t)
    \/ \E t \in Tasks : PwReject(t)
    \/ \E t \in Tasks : PwStore(t)
    \/ \E t \in Tasks, u \in Users : cmd_menu(t, u)
    \/ \E t \in Tasks, u \in Users : cmd_attendance(t, u)
    \/ \E t \in Tasks, u \in Users : cmd_fees(t, u)
    \/ \E t \in Tasks, u \in Users : cmd_exam(t, u)
    \/ \E t \in Tasks, u \in Users : cmd_profile(t, u)
    \/ \E t \in Tasks, u \in Users : cmd_result(t, u)
    \/ \E t \in Tasks, u \in Users : cmd_logout(t, u)
    \/ \E t \in Tasks, u \in Users, d \in CallbackData : menu_handler(t, u, d)
    \/ \E t \in Tasks : CbRestore(t)
    \/ \E t \in Tasks : CbProbe(t)
    \/ \E t \in Tasks : SchedWake(t)
    \/ \E t \in Tasks : SchedOpEnd(t)
    \/ \E t \in Tasks : on_shutdown(t)
    \/ \E t \in Tasks : BrowserStop(t)

Spec == Init /\ [][Next]_vars

\* The same program started with a users table that holds the credentials of
\* every chat: the scheduler then works on the sessions of several users
\* while a handler runs.
InitTwoUsers ==
    /\ user_sessions = [u \in Users |-> 0]
    /\ contexts = <<>>
    /\ task = [t \in Tasks |->
                 IF t = SchedulerTask
                 THEN [IdleTask EXCEPT !.kind = "run_scheduled_alerts", !.pc = "sched_sleep"]
                 ELSE IdleTask]
    /\ creds = UsersTable([u \in Users |-> "good"])
    /\ alerts_on = [u \in Users |-> 1]
    /\ dlg = [u \in Users |-> "none"]
    /\ now = 0
    /\ events = 0
    /\ browser = "up"
    /\ useAfterRelease = FALSE
    /\ call = NoCall

\* Both chats are logged in to the bot: nobody runs the /start dialogue, and
\* the clock does not pass the expiry of a session.
NextTwoUsers ==
    \/ \E t \in Tasks : Return(t)
    \/ \E t \in Tasks : AutoLoginNewContext(t)
    \/ \E t \in Tasks : AutoLoginPortal(t)
    \/ \E t \in Tasks : AutoLoginReject(t)
    \/ \E t \in Tasks : AutoLoginStore(t)
    \/ \E t \in Tasks : ClosePage(t)
    \/ \E t \in Tasks : CloseContext(t)
    \/ \E t \in Tasks : OpBegin(t)
    \/ \E t \in Tasks : OpEnd(t)
    \/ \E t \in Tasks, u \in Users : cmd_menu(t, u)
    \/ \E t \in Tasks, u \in Users : cmd_attendance(t, u)
    \/ \E t \in Tasks, u \in Users : cmd_fees(t, u)
    \/ \E t \in Tasks, u \in Users : cmd_exam(t, u)
    \/ \E t \in Tasks, u \in Users : cmd_profile(t, u)
    \/ \E t \in Tasks, u \in Users : cmd_result(t, u)
    \/ \E t \in Tasks, u \in Users : cmd_logout(t, u)
    \/ \E t \in Tasks, u \in Users, d \in CallbackData : menu_handler(t, u, d)
    \/ \E t \in Tasks : CbRestore(t)
    \/ \E t \in Tasks : CbProbe(t)
    \/ \E t \in Tasks : SchedWake(t)
    \/ \E t \in Tasks : SchedOpEnd(t)
    \/ \E t \in Tasks : on_shutdown(t)
    \/ \E t \in Tasks : BrowserStop(t)

SpecTwoUsers == InitTwoUsers /\ [][NextTwoUsers]_vars


\* The same program started with a users table whose row for chat 1 holds a
\* credential that the portal no longer accepts (the password was changed on
\* the portal): the chats go through the /start dialogue.
InitLogin ==
    /\ user_sessions = [u \in Users |-> 0]
    /\ contexts = <<>>
    /\ task = [t \in Tasks |->
                 IF t = SchedulerTask
                 THEN [IdleTask EXCEPT !.kind = "run_scheduled_alerts", !.pc = "sched_sleep"]
                 ELSE IdleTask]
    /\ creds = UsersTable([u \in Users |-> IF u = 1 THEN "old" ELSE NoCreds])
    /\ alerts_on = [u \in Users |-> 1]
    /\ dlg = [u \in Users |-> "none"]
    /\ now = 0
    /\ events = 0
    /\ browser = "up"
    /\ useAfterRelease = FALSE
    /\ call = NoCall

\* /start, the username, the password, and the logins they run
NextLogin ==
    \/ \E t \in Tasks : Return(t)
    \/ \E t \in Tasks : AutoLoginNewContext(t)
    \/ \E t \in Tasks : AutoLoginPortal(t)
    \/ \E t \in Tasks : AutoLoginReject(t)
    \/ \E t \in Tasks, u \in Users : cmd_start(t, u)
    \/ \E t \in Tasks : StartRestore(t)
    \/ \E t \in Tasks : StartPrompt(t)
    \/ \E t \in Tasks, u \in Users : get_username(t, u)
    \/ \E t \in Tasks : UsernameSet(t)
    \/ \E t \in Tasks, u \in Users, cr \in Credentials : get_password(t, u, cr)
    \/ \E t \in Tasks : PwClear(t)
    \/ \E t \in Tasks : PwNewContext(t)
    \/ \E t \in Tasks : PwPortal(t)
    \/ \E t \in Tasks : PwReject(t)
    \/ \E t \in Tasks : PwStore(t)

SpecLogin == InitLogin /\ [][NextLogin]_vars

\* ================================================ extractors and presenters
\* The extractors read a page of the portal and return a dict; the presenters
\* turn such a dict into the text of an answer.  They are modelled as
\* operators on a description of the page (what each browser call on it does
\* and what its elements hold) and studied under their own specification.
\*
\* A text is a sequence of tokens; "{{" and "}}" are the delimiters of a
\* template expression that the page's script has not rendered.  A dict is a
\* record, `"k" in d` is  k \in DOMAIN d .

MaxRows == 2           \* rows of the table / items of the endpoint's list

PLACEHOLDER == <<"{{", "item.value", "}}">>
LabelTexts == {<<>>, <<"Ravi">>, PLACEHOLDER}     \* innerText of a label element
SrTexts    == {<<"1">>, PLACEHOLDER}              \* first cell of a table row
CellTexts  == {<<>>, <<"Ravi">>, PLACEHOLDER}     \* the other cells / spans of a row

Rows == [sr : SrTexts, cell : CellTexts]
RowSeqs == UNION {[1..n -> Rows] : n \in 0..MaxRows}

\* a page of the portal as the extractor meets it
Pages ==
    [nav    : {"ok", "raise"},            \* page.goto(...)
     script : {"ok", "raise"},            \* page.evaluate(...)
     api    : {"ok", "raise", "nolist"},  \* the POST to the page's endpoint:
                                          \* a list, an exception (network,
                                          \* timeout, JSON), a "d" that is no list
     items  : 0..MaxRows,                 \* length of the endpoint's list
     table  : BOOLEAN,                    \* the table element exists
     label  : LabelTexts,
     rows   : RowSeqs]

Extractors ==
    {"extract_profile", "extract_result", "extract_fees", "extract_attendance",
     "extract_exam"}
Presenters ==
    {"format_profile_message", "format_result_message", "format_fees_message",
     "format_fees_detail_message", "format_attendance_message",
     "format_attendance_daily", "format_exam_message"}

\* ----------------------------------------------------------- dict helpers
Has(d, k) == k \in DOMAIN d
Get(d, k, default) == IF k \in DOMAIN d THEN d[k] ELSE default
EmptyDict == <<>>

\* an exception raised inside a function body
Raise(e) == [exception |-> e]
IsRaise(r) == "exception" \in DOMAIN r

\* try: <body>  except Exception as e: return {"error": str(e)}
Catch(r) == IF IsRaise(r) THEN [error |-> r.exception] ELSE r

\* isNaN(parseInt(text)) is false
ParsesAsInt(text) == text # <<>> /\ text[1] \in {"0", "1", "2", "3"}

\* text.includes('{{')
IncludesOpen(text) == \E i \in 1..Len(text) : text[i] = "{{"

\* ------------------------------------------------- characters and numbers
\* Where the code parses a text, the text is the sequence of its characters.
\* A value of the server's JSON is a record with one field: [int |-> n],
\* [float |-> n] (n in tenths), [str |-> text] or [none |-> TRUE]; an item of
\* a list that is no object (null) is [null |-> TRUE].
Digits == <<"0", "1", "2", "3", "4", "5", "6", "7", "8", "9">>
IsDigit(ch) == \E i \in 1..Len(Digits) : Digits[i] = ch
DigitVal(ch) == (CHOOSE i \in 1..Len(Digits) : Digits[i] = ch) - 1

RECURSIVE DigitsValue(_)
\* the number that a run of digits denotes
DigitsValue(ds) ==
    IF ds = <<>> THEN 0
    ELSE 10 * DigitsValue(SubSeq(ds, 1, Len(ds) - 1)) + DigitVal(ds[Len(ds)])

RECURSIVE DigitRun(_)
\* the length of the longest prefix of text that is made of digits
DigitRun(text) ==
    IF text # <<>> /\ IsDigit(Head(text)) THEN 1 + DigitRun(Tail(text)) ELSE 0

RECURSIVE Pow10(_)
Pow10(k) == IF k = 0 THEN 1 ELSE 10 * Pow10(k - 1)

\* the number  ip.fp  in units of 10^-scale (digits of fp beyond scale dropped)
Scaled(ip, fp, scale) ==
    LET kept == SubSeq(fp, 1, IF Len(fp) < scale THEN Len(fp) ELSE scale)
    IN  DigitsValue(ip) * Pow10(scale) + DigitsValue(kept) * Pow10(scale - Len(kept))

RECURSIVE ToDigits(_)
\* str(n) of a natural number
ToDigits(n) ==
    IF n < 10 THEN <<Digits[n + 1]>> ELSE ToDigits(n \div 10) \o <<Digits[(n % 10) + 1]>>

\* str(v) of a value of the server's JSON
PyStr(v) ==
    CASE Has(v, "int")   -> ToDigits(v.int)
      [] Has(v, "float") -> ToDigits(v.float \div 10) \o <<".">> \o ToDigits(v.float % 10)
      [] Has(v, "str")   -> v.str
      [] Has(v, "none")  -> <<"N", "o", "n", "e">>

\* text.replace(",", "")
RemoveCommas(text) == SelectSeq(text, LAMBDA ch : ch # ",")

RECURSIVE Strip(_)
\* text.strip()
Strip(text) ==
    IF text = <<>> THEN text
    ELSE IF Head(text) = " " THEN Strip(Tail(text))
    ELSE IF text[Len(text)] = " " THEN Strip(SubSeq(text, 1, Len(text) - 1))
    ELSE text

\* float(text) for the decimal texts of the fixtures, in units of 10^-scale:
\* an optional sign, digits with an optional point, at least one digit, and
\* nothing else; ValueError otherwise
PyFloat(text, scale) ==
    LET body == IF text # <<>> /\ Head(text) \in {"+", "-"} THEN Tail(text) ELSE text
        neg  == text # <<>> /\ Head(text) = "-"
        n    == DigitRun(body)
        rest == SubSeq(body, n + 1, Len(body))
        hasp == rest # <<>> /\ Head(rest) = "."
        frac == IF hasp THEN Tail(rest) ELSE <<>>
        m    == DigitRun(frac)
        val  == Scaled(SubSeq(body, 1, n), frac, scale)
    IN  IF n + m = 0 \/ (hasp /\ m # Len(frac)) \/ (~hasp /\ rest # <<>>)
        THEN Raise("ValueError")
        ELSE [value |-> IF neg THEN 0 - val ELSE val]

\* float(str(v).replace(",", "").strip()) inside try/except: 0.0 on failure
FloatOrZero(v, scale) ==
    LET r == PyFloat(Strip(RemoveCommas(PyStr(v))), scale)
    IN  IF IsRaise(r) THEN 0 ELSE r.value

\* an item of the endpoint's list is an object
IsDict(c) == ~Has(c, "null")

\* text.replace(/[^0-9.]/g, '')
KeepDigitsAndPoint_KeepsComma(text) ==
    SelectSeq(text, LAMBDA ch : IsDigit(ch) \/ ch \in {".", ","})
KeepDigitsAndPoint(text) == SelectSeq(text, LAMBDA ch : IsDigit(ch) \/ ch = ".")

\* parseFloat(text) || 0 in units of 10^-scale, for a text without sign,
\* exponent or leading blank: the longest prefix  digits [. digits]  is the
\* number, NaN (and then 0) when that prefix holds no digit
ParseFloatOrZero(text, scale) ==
    LET n    == DigitRun(text)
        rest == SubSeq(text, n + 1, Len(text))
        frac == IF rest # <<>> /\ Head(rest) = "." THEN Tail(rest) ELSE <<>>
        m    == DigitRun(frac)
    IN  IF n + m = 0 THEN 0
        ELSE Scaled(SubSeq(text, 1, n), SubSeq(frac, 1, m), scale)

\* amount_num of a fee row, in hundredths, line 502
AmountNum(amount_raw) == ParseFloatOrZero(KeepDigitsAndPoint(amount_raw), 2)

RECURSIVE MapRows(_, _)
\* the rows of `rows` that the loop of one extractor keeps, each turned into
\* the item the loop appends; `kind` names the loop
MapRows(rows, kind) ==
    IF rows = <<>> THEN <<>>
    ELSE LET row   == Head(rows)
             texts == <<row.sr, row.cell, row.cell>>    \* the cells of the <tr>
             rest  == MapRows(Tail(rows), kind)
         IN  CASE kind = "fees" ->        \* 491-513: sr must parse as a number
                    IF ParsesAsInt(row.sr)
                    THEN <<[sr |-> row.sr, amount_display |-> row.cell,
                            amount |-> AmountNum(row.cell),
                            pay_type |-> row.cell, account_head |-> row.cell,
                            pay_date |-> row.cell, receipt_no |-> row.cell,
                            status |-> row.cell]>> \o rest
                    ELSE rest
               [] kind = "lectures" ->    \* 583-608: slot must parse as a number
                    IF ParsesAsInt(row.sr)
                    THEN <<[slot |-> row.sr,
                            days |-> <<[date |-> <<>>,
                                        status |-> IF row.cell = <<>> THEN <<"-">>
                                                   ELSE row.cell]>>]>> \o rest
                    ELSE rest
               [] kind = "exam" ->        \* 658-669
                    IF \/ IncludesOpen(texts[1] \o texts[2] \o texts[3])
                       \/ texts[1] = <<>>
                       \/ (ParsesAsInt(texts[1]) /\ Len(texts) < 3)
                    THEN rest
                    ELSE <<[subject |-> texts[1], marks |-> texts[2],
                            grade |-> texts[3], result |-> <<>>]>> \o rest

\* an object of the server's data as the endpoints send it
ServerItem ==
    [month |-> <<"Jan">>, persentage |-> [float |-> 800],
     present_lecture |-> [int |-> 16], total_lecture_for_stud |-> [int |-> 20],
     Semester_Name |-> <<"Sem", "1">>, exam_name |-> <<"Winter">>,
     semester_name |-> <<"Sem", "1">>, ssrd_SGPA |-> [float |-> 85],
     Total_backlog |-> [int |-> 0]]

\* the list "d" of the endpoint's answer on page p: the list the page
\* description gives, or p.items objects of the server's data
EndpointList(p) ==
    IF Has(p, "d") THEN p.d ELSE [i \in 1..p.items |-> ServerItem]

\* c.get(...) works on every item of the list; on an item that is no object
\* it raises AttributeError
AllDicts(d) == \A i \in 1..Len(d) : IsDict(d[i])

\* the items an extractor builds from the objects of the list d; `kind` names
\* the loop
MapItems(d, kind) ==
    CASE kind = "monthly" ->              \* 557-568
           [i \in 1..Len(d) |->
              [sr |-> i,
               month |-> Get(d[i], "month", <<>>),
               total_lectures |-> Get(d[i], "total_lecture_for_stud", [int |-> 0]),
               present |-> Get(d[i], "present_lecture", [int |-> 0]),
               percentage |-> Get(d[i], "persentage", [int |-> 0])]]
      [] kind = "results" ->              \* 401-418
           [i \in 1..Len(d) |->
              [semester |-> Get(d[i], "Semester_Name", <<>>),
               exam |-> Get(d[i], "exam_name", <<>>)]]
      [] kind = "performance" ->          \* 436-450
           [i \in 1..Len(d) |->
              [semester |-> Get(d[i], "semester_name", <<>>),
               sgpa |-> FloatOrZero(Get(d[i], "ssrd_SGPA", [int |-> 0]), 1),
               backlogs |-> Get(d[i], "Total_backlog", [int |-> 0])]]

\* ------------------------------------------------------------- extractors
\* the time stamp datetime.now().isoformat()
Stamp == <<"t">>

extract_profile(p) ==
    Catch(IF p.nav = "raise" THEN Raise("goto")
          ELSE IF p.script = "raise" THEN Raise("evaluate")
          ELSE \* _wait_for_angular swallows its timeout; g(id) is the
               \* innerText of the label, '' when the label is missing
               [profile |-> [full_name |-> p.label, father_name |-> p.label,
                             enrollment_no |-> p.label, extracted_at |-> Stamp],
                extracted_at |-> Stamp])

extract_result(p) ==
    Catch(IF p.nav = "raise" THEN Raise("goto")
          ELSE IF p.api = "raise" THEN Raise("post")
          ELSE IF p.api = "ok" /\ ~AllDicts(EndpointList(p))
          THEN Raise("AttributeError")            \* item.get(...) at 402
          ELSE [results |-> IF p.api = "ok"
                            THEN MapItems(EndpointList(p), "results") ELSE <<>>,
                performance |-> IF p.api = "ok"
                                THEN MapItems(EndpointList(p), "performance")
                                ELSE <<>>,
                extracted_at |-> Stamp])

extract_fees(p) ==
    Catch(IF p.nav = "raise" THEN Raise("goto")
          ELSE IF p.script = "raise" THEN Raise("evaluate")
          ELSE IF ~p.table
          THEN [fees |-> <<>>, total_paid |-> 0, error |-> "Fee table not found",
                extracted_at |-> Stamp]
          ELSE [fees |-> MapRows(p.rows, "fees"),
                total_paid |-> AmountNum(p.label),
                extracted_at |-> Stamp])

extract_attendance(p) ==
    Catch(IF p.nav = "raise" THEN Raise("goto")
          ELSE LET \* the inner try: `except Exception: monthly = []`
                   \* covers the call, the decoding and c.get(...) of the loop
                   monthly == IF p.api = "ok" /\ AllDicts(EndpointList(p))
                              THEN MapItems(EndpointList(p), "monthly")
                              ELSE <<>>
               IN  IF p.script = "raise" THEN Raise("evaluate")
                   ELSE [monthly  |-> monthly,
                         lectures |-> IF p.table THEN MapRows(p.rows, "lectures")
                                      ELSE <<>>,
                         student  |-> IF p.table THEN [name |-> p.label]
                                      ELSE EmptyDict,
                         headers  |-> <<>>,
                         extracted_at |-> Stamp])

extract_exam(p) ==
    Catch(IF p.nav = "raise" THEN Raise("goto")
          ELSE IF p.script = "raise" THEN Raise("evaluate")
          ELSE [results |-> IF p.table THEN MapRows(p.rows, "exam") ELSE <<>>,
                extracted_at |-> Stamp])

RunExtractor(e, p) ==
    CASE e = "extract_profile"    -> extract_profile(p)
      [] e = "extract_result"     -> extract_result(p)
      [] e = "extract_fees"       -> extract_fees(p)
      [] e = "extract_attendance" -> extract_attendance(p)
      [] e = "extract_exam"       -> extract_exam(p)

\* -------------------------------------------------------------- presenters
\* The text of an answer is the sequence of its parts; only the parts that
\* tell the answers apart are kept.

MinutesPerDay == 1440

\* datetime.now().strftime('%d %b %Y, %H:%M') and .strftime('%d %b %Y') at
\* the time of the call; `now` counts minutes
UpdatedStamp == now
AsOfDate == now \div MinutesPerDay

\* the band of a month's percentage (in tenths), lines 909-912
Band_GoodAbove85(pct) ==
    IF pct > 850 THEN "Good" ELSE IF pct >= 750 THEN "OK"
    ELSE IF pct >= 600 THEN "Low" ELSE "Critical"
Band(pct) ==
    IF pct >= 850 THEN "Good" ELSE IF pct >= 750 THEN "OK"
    ELSE IF pct >= 600 THEN "Low" ELSE "Critical"

\* the line of month record m, lines 895-922; pct is shown as {pct:.1f}
MonthLine(m) ==
    LET pct == FloatOrZero(Get(m, "percentage", [int |-> 0]), 1)
    IN  [month   |-> Get(m, "month", <<"Month">>),
         pct     |-> pct,
         present |-> Get(m, "present", [int |-> 0]),
         total   |-> Get(m, "total_lectures", [int |-> 0]),
         status  |-> Band(pct)]
format_profile_message(data) ==
    IF Has(data, "error") THEN <<"Could not extract profile: ", data.error>>
    ELSE LET pr == Get(data, "profile", EmptyDict) IN
         IF DOMAIN pr = {} THEN <<"No profile data found.">>
         ELSE <<"Student Profile">> \o Get(pr, "full_name", <<>>)
              \o Get(pr, "father_name", <<>>) \o Get(pr, "enrollment_no", <<>>)
              \o <<"Updated: ", UpdatedStamp>>

format_result_message(data) ==
    IF Has(data, "error") THEN <<"Could not fetch results: ", data.error>>
    ELSE IF Get(data, "results", <<>>) = <<>> /\ Get(data, "performance", <<>>) = <<>>
    THEN <<"No result data found.">>
    ELSE <<"Exam Results", Len(Get(data, "results", <<>>)),
           Len(Get(data, "performance", <<>>)), "Updated: ", UpdatedStamp>>

format_fees_message(data) ==
    IF Has(data, "error") THEN <<"Could not extract fees: ", data.error>>
    ELSE IF Get(data, "fees", <<>>) = <<>> THEN <<"No fee records found.">>
    ELSE <<"Fee Payment Summary", "As of: ", AsOfDate, Len(data.fees)>>

format_fees_detail_message(data) ==
    IF Has(data, "error") THEN <<"", data.error>>
    ELSE IF Get(data, "fees", <<>>) = <<>> THEN <<"No transactions found.">>
    ELSE <<"All Fee Transactions", Len(data.fees)>>

format_attendance_message(data) ==
    IF Has(data, "error") THEN <<"Could not extract attendance: ", data.error>>
    ELSE IF Get(data, "monthly", <<>>) = <<>> THEN <<"No monthly data found.">>
    ELSE LET lines == [i \in 1..Len(data.monthly) |-> MonthLine(data.monthly[i])]
             low   == Cardinality({i \in 1..Len(lines) : lines[i].pct < 750})
         IN  <<"Month-wise Attendance", lines, low>>

\* no test of "error": data.get("lectures", []) of an error record is []
format_attendance_daily(data) ==
    IF Get(data, "lectures", <<>>) = <<>>
    THEN <<"No lecture-wise data available.">>
    ELSE <<"Lecture-wise Daily Attendance", Len(data.lectures)>>

format_exam_message(data) ==
    IF Has(data, "error") THEN <<"Could not extract results: ", data.error>>
    ELSE IF Get(data, "results", <<>>) = <<>> THEN <<"No exam results found.">>
    ELSE <<"Exam Results", Len(data.results)>>

RunPresenter(f, data) ==
    CASE f = "format_profile_message"     -> format_profile_message(data)
      [] f = "format_result_message"      -> format_result_message(data)
      [] f = "format_fees_message"        -> format_fees_message(data)
      [] f = "format_fees_detail_message" -> format_fees_detail_message(data)
      [] f = "format_attendance_message"  -> format_attendance_message(data)
      [] f = "format_attendance_daily"    -> format_attendance_daily(data)
      [] f = "format_exam_message"        -> format_exam_message(data)

\* the extractor whose record the callers hand to presenter f
ExtractorOf(f) ==
    CASE f = "format_profile_message"     -> "extract_profile"
      [] f = "format_result_message"      -> "extract_result"
      [] f = "format_fees_message"        -> "extract_fees"
      [] f = "format_fees_detail_message" -> "extract_fees"
      [] f = "format_attendance_message"  -> "extract_attendance"
      [] f = "format_attendance_daily"    -> "extract_attendance"
      [] f = "format_exam_message"        -> "extract_exam"

\* The same program started with any users table a former run can have left:
\* each chat has logged in or not, and a chat that has may have switched its
\* alerts off.  The chats log in, toggle their alerts, and the scheduler runs.
FlagCallbacks == {"toggle_alerts"}

InitFlags ==
    /\ user_sessions = [u \in Users |-> 0]
    /\ contexts = <<>>
    /\ task = [t \in Tasks |->
                 IF t = SchedulerTask
                 THEN [IdleTask EXCEPT !.kind = "run_scheduled_alerts", !.pc = "sched_sleep"]
                 ELSE IdleTask]
    /\ \E f \in [Users -> {"good", NoCreds}] :
         /\ creds = UsersTable(f)
         /\ alerts_on \in [Users -> {0, 1}]
         /\ \A u \in Users : f[u] = NoCreds => alerts_on[u] = 1
    /\ dlg = [u \in Users |-> "none"]
    /\ now = 0
    /\ events = 0
    /\ browser = "up"
    /\ useAfterRelease = FALSE
    /\ call = NoCall

NextFlags ==
    \/ \E t \in Tasks : Return(t)
    \/ \E t \in Tasks : AutoLoginNewContext(t)
    \/ \E t \in Tasks : AutoLoginPortal(t)
    \/ \E t \in Tasks : AutoLoginReject(t)
    \/ \E t \in Tasks : AutoLoginStore(t)
    \/ \E t \in Tasks : ClosePage(t)
    \/ \E t \in Tasks : CloseContext(t)
    \/ \E t \in Tasks : OpBegin(t)
    \/ \E t \in Tasks, u \in Users : cmd_start(t, u)
    \/ \E t \in Tasks : StartRestore(t)
    \/ \E t \in Tasks : StartPrompt(t)
    \/ \E t \in Tasks, u \in Users : get_username(t, u)
    \/ \E t \in Tasks : UsernameSet(t)
    \/ \E t \in Tasks, u \in Users, cr \in Credentials : get_password(t, u, cr)
    \/ \E t \in Tasks : PwClear(t)
    \/ \E t \in Tasks : PwNewContext(t)
    \/ \E t \in Tasks : PwPortal(t)
    \/ \E t \in Tasks : PwReject(t)
    \/ \E t \in Tasks : PwStore(t)
    \/ \E t \in Tasks, u \in Users : cmd_alerts(t, u)
    \/ \E t \in Tasks, u \in Users, d \in FlagCallbacks : menu_handler(t, u, d)
    \/ \E t \in Tasks : CbRestore(t)
    \/ \E t \in Tasks : CbProbe(t)
    \/ \E t \in Tasks : SchedWake(t)
    \/ \E t \in Tasks : SchedOpEnd(t)

SpecFlags == InitFlags /\ [][NextFlags]_vars

\* ------------------------------------------- the specification of the calls
StoresIdle ==
    /\ user_sessions = [u \in Users |-> 0]
    /\ contexts = <<>>
    /\ task = [t \in Tasks |->
                 IF t = SchedulerTask
                 THEN [IdleTask EXCEPT !.kind = "run_scheduled_alerts", !.pc = "sched_sleep"]
                 ELSE IdleTask]
    /\ creds = UsersTable([u \in Users |-> IF u = 1 THEN "good" ELSE NoCreds])
    /\ alerts_on = [u \in Users |-> 1]
    /\ dlg = [u \in Users |-> "none"]
    /\ events = 0
    /\ browser = "up"
    /\ useAfterRelease = FALSE

SessionsIdle == StoresIdle /\ now = 0

sessionVars == <<user_sessions, contexts, task, creds, alerts_on, dlg, now,
                 events, browser, useAfterRelease>>

\* a handler is about to call an extractor on a page in any condition
InitExtract ==
    /\ SessionsIdle
    /\ \E p \in Pages : call = [stage |-> "page", page |-> p]

\* data = await extract_*(page)
Extract(e) ==
    /\ call.stage = "page"
    /\ call' = [stage |-> "record", fn |-> e, page |-> call.page,
                data |-> RunExtractor(e, call.page)]
    /\ UNCHANGED sessionVars

\* text = format_*(data), on the record the extractor returned
Present(f) ==
    /\ call.stage = "record"
    /\ call.fn = ExtractorOf(f)
    /\ ~IsRaise(call.data)
    /\ call' = [stage |-> "text", fn |-> call.fn, fmt |-> f, page |-> call.page,
                data |-> call.data, text |-> RunPresenter(f, call.data)]
    /\ UNCHANGED sessionVars

NextExtract ==
    \/ \E e \in Extractors : Extract(e)
    \/ \E f \in Presenters : Present(f)

SpecExtract == InitExtract /\ [][NextExtract]_vars

\* --------------------------------- the specification of repeated answers
\* A presenter is called a second time on the record it was called on, while
\* the clock runs.
SamplePages ==
    {p \in Pages : /\ p.script = "ok"
                   /\ p.rows \in {<<>>, <<[sr |-> <<"1">>, cell |-> <<"Ravi">>]>>}}

\* the bot may be started at any time of the day
InitPresent ==
    /\ StoresIdle
    /\ now \in {0, MinutesPerDay - 1}
    /\ \E p \in SamplePages : call = [stage |-> "page", page |-> p]

\* text = format_*(data) once more, on the same record
PresentAgain ==
    /\ call.stage = "text"
    /\ call' = [stage |-> "text2", fn |-> call.fn, fmt |-> call.fmt,
                page |-> call.page, data |-> call.data, text |-> call.text,
                again |-> RunPresenter(call.fmt, call.data)]
    /\ UNCHANGED sessionVars

NextPresent ==
    \/ NextExtract
    \/ PresentAgain
    \/ \E d \in TickSteps : Tick(d)

SpecPresent == InitPresent /\ [][NextPresent]_vars

\* ------------------------------------- the specification of field parsing
\* The same calls on pages whose endpoint lists and table cells hold values
\* that the parsing code has to cope with.
MaxPct == 1000         \* percentages 0.0 .. 100.0, in tenths
MaxAmountLen == 3      \* characters of a generated amount text

\* values that are no number
BadNumbers == {[str |-> <<"N", "/", "A">>], [str |-> <<>>], [none |-> TRUE]}

\* a month object whose percentage is n tenths, as a number, and the same
\* month with the percentage as a text
MonthOf(n) ==
    [ServerItem EXCEPT !.persentage = [float |-> n],
                       !.present_lecture = [int |-> n],
                       !.total_lecture_for_stud = [int |-> MaxPct]]
MonthAsText(n) ==
    [MonthOf(n) EXCEPT !.persentage =
        [str |-> <<" ">> \o ToDigits(n \div 10) \o <<".">> \o ToDigits(n % 10) \o <<" ">>]]

\* a month object without "persentage"
MonthOnly ==
    [month |-> <<"Feb">>, present_lecture |-> [int |-> 18],
     total_lecture_for_stud |-> [int |-> 20]]

\* items of unexpected shape or with a value that does not parse
OddItems ==
    {ServerItem, MonthOnly, [null |-> TRUE]}
    \cup {[ServerItem EXCEPT !.persentage = v, !.ssrd_SGPA = v] : v \in BadNumbers}

ItemLists ==
    {<<MonthOf(n)>> : n \in 0..MaxPct}
    \cup {<<MonthAsText(n)>> : n \in 0..MaxPct}
    \cup UNION {[1..n -> OddItems] : n \in 0..MaxRows}

\* the displayed amount of a fee row
AmountChars == {"1", "2", ".", ",", "rupee"}
RupeeExample == <<"rupee", "1", "2", ",", "3", "4", "5", ".", "0", "0">>
AmountTexts ==
    UNION {[1..n -> AmountChars] : n \in 0..MaxAmountLen}
    \cup {RupeeExample, <<"N", "/", "A">>, <<"-", "5", "0">>, <<"7", "5", "0", "0">>}

\* a page that was read without any failure and holds nothing
EmptyPage ==
    [nav |-> "ok", script |-> "ok", api |-> "ok", items |-> 0, table |-> TRUE,
     label |-> <<>>, rows |-> <<>>]

FieldPages ==
    {[nav |-> "ok", script |-> "ok", api |-> "ok", items |-> Len(d),
      table |-> TRUE, label |-> <<>>, rows |-> <<>>, d |-> d] : d \in ItemLists}
    \cup {[EmptyPage EXCEPT !.rows = <<[sr |-> <<"1">>, cell |-> a]>>, !.label = a] :
            a \in AmountTexts}

InitFields ==
    /\ SessionsIdle
    /\ \E p \in FieldPages : call = [stage |-> "page", page |-> p]

SpecFields == InitFields /\ [][NextExtract]_vars

\* --------------------------------------- the specification of snapshots
\* The snapshots table and the wall clock that stamps its rows.  captured_at
\* is datetime.now().isoformat(): local wall-clock time to the microsecond,
\* which moves on while a row is written and which the system may set back
\* (clock correction, end of daylight saving time).
MaxSnaps == 3          \* rows of the snapshots table
MaxClock == 2          \* readings of the wall clock
SnapPages == {"attendance", "fees"}

Dumps(data) == [json |-> data]          \* json.dumps(data)
Loads(text) == text.json                \* json.loads(text)
PyNone == [none |-> TRUE]

\* the rows of table that SELECT ... WHERE chat_id=? AND page_name=? finds
RowsOf(table, u, pg) ==
    {i \in 1..Len(table) : table[i].chat_id = u /\ table[i].page_name = pg}

\* the rows that ORDER BY captured_at DESC LIMIT 1 OFFSET 1 may deliver: a
\* row that some descending order of the stamps puts in the second place (the
\* order among equal stamps is not determined)
SecondByStamp(table, rows) ==
    {i \in rows :
       /\ Cardinality({j \in rows : table[j].captured_at > table[i].captured_at}) <= 1
       /\ Cardinality({j \in rows : j # i /\ table[j].captured_at >= table[i].captured_at}) >= 1}

InitSnapshots ==
    /\ SessionsIdle
    /\ call = [stage |-> "db", snapshots |-> <<>>, clock |-> 0,
               asked |-> <<>>, got |-> PyNone]

\* save_snapshot(chat_id, page_name, data); time passes while the row is
\* written
save_snapshot(u, pg) ==
    /\ call.stage = "db"
    /\ Len(call.snapshots) < MaxSnaps
    /\ call' = [call EXCEPT
                  !.snapshots = Append(@, [id |-> Len(@) + 1, chat_id |-> u,
                                           page_name |-> pg,
                                           data_json |-> Dumps([n |-> Len(@) + 1]),
                                           captured_at |-> call.clock]),
                  !.clock = @ + 1,
                  !.asked = <<>>, !.got = PyNone]
    /\ UNCHANGED sessionVars

\* get_last_snapshot(chat_id, page_name)
get_last_snapshot(u, pg) ==
    /\ call.stage = "db"
    /\ LET rows == SecondByStamp(call.snapshots, RowsOf(call.snapshots, u, pg))
       IN  \/ /\ rows = {}
              /\ call' = [call EXCEPT !.asked = <<u, pg>>, !.got = PyNone]
           \/ \E i \in rows :
                call' = [call EXCEPT !.asked = <<u, pg>>,
                                     !.got = Loads(call.snapshots[i].data_json)]
    /\ UNCHANGED sessionVars

\* time passes
ClockAdvance ==
    /\ call.stage = "db"
    /\ call.clock < MaxClock
    /\ call' = [call EXCEPT !.clock = @ + 1]
    /\ UNCHANGED sessionVars

\* the system sets its wall clock back
ClockSetBack ==
    /\ call.stage = "db"
    /\ \E c \in 0..(call.clock - 1) : call' = [call EXCEPT !.clock = c]
    /\ UNCHANGED sessionVars

NextSnapshots ==
    \/ \E u \in Users, pg \in SnapPages : save_snapshot(u, pg)
    \/ \E u \in Users, pg \in SnapPages : get_last_snapshot(u, pg)
    \/ ClockAdvance
    \/ ClockSetBack

SpecSnapshots == InitSnapshots /\ [][NextSnapshots]_vars

\* ------------------------------- the specification of the alert decision
\* What run_scheduled_alerts does with the record of one user once it holds a
\* session (bot.py 1096-1112), on attendance pages in any condition.

\* float(re.sub(r"[^\d.]", "", s.get("percent", "0"))) in tenths; an item
\* whose text does not parse is skipped by `except Exception: pass`
SubjectPct(s) == PyFloat(KeepDigitsAndPoint(Get(s, "percent", <<"0">>)), 1)

\* the list `low`: the items of att_data.get("subjects", []) under 75 percent
LowSubjects(att_data) ==
    SelectSeq(Get(att_data, "subjects", <<>>),
              LAMBDA s : ~IsRaise(SubjectPct(s)) /\ SubjectPct(s).value < 750)

\* the scheduler holds the session of a user of get_all_users_with_alerts()
InitAlerts ==
    /\ SessionsIdle
    /\ \E p \in FieldPages :
         call = [stage |-> "alert_page", chat_id |-> 1, page |-> p]

\* att_data = await extract_attendance(page); save_snapshot; build `low`;
\* if low: bot.send_message and log_alert.  A send that raises leaves the
\* try block before log_alert.
AlertCheck ==
    /\ call.stage = "alert_page"
    /\ LET att_data == extract_attendance(call.page)
           low      == LowSubjects(att_data)
       IN  \E sent \in {TRUE, FALSE} :
             /\ sent => low # <<>>
             /\ call' = [stage |-> "alert_done", chat_id |-> call.chat_id,
                         page |-> call.page, data |-> att_data,
                         snapshot |-> Dumps(att_data), low |-> low,
                         sent |-> IF sent THEN <<low>> ELSE <<>>,
                         alert_log |-> IF sent THEN <<[chat_id |-> call.chat_id,
                                                       alert_type |-> "attendance",
                                                       message |-> low]>>
                                       ELSE <<>>]
    /\ UNCHANGED sessionVars

\* the record is dropped at the end of the iteration
AlertNext ==
    /\ call.stage = "alert_done"
    /\ call' = [stage |-> "alert_page", chat_id |-> call.chat_id, page |-> call.page]
    /\ UNCHANGED sessionVars

NextAlerts ==
    \/ AlertCheck
    \/ AlertNext

SpecAlerts == InitAlerts /\ [][NextAlerts]_vars

\* ------------------------------------ the specification of main's loop
\* main (bot.py 1643-1676): delete_webhook, then the loop that starts
\* polling.  str(e) of an exception is a sequence of words.
max_retries == 10

ErrorTexts ==
    {<<"Conflict", "terminated", "by", "other", "getUpdates", "request">>,
     <<"Telegram", "server", "says", "terminated by other">>,
     <<"Unauthorized">>,
     <<"Cannot", "connect", "to", "host">>}

\* "Conflict" in err or "terminated by other" in err
IsConflict(err) ==
    \/ \E i \in 1..Len(err) : err[i] = "Conflict"
    \/ \E i \in 1..Len(err) : err[i] = "terminated by other"
    \/ \E i \in 1..(Len(err) - 2) :
         err[i] = "terminated" /\ err[i + 1] = "by" /\ err[i + 2] = "other"

\* wait = 5 * attempt
RetryWait_Fixed(attempt) == 5
RetryWait(attempt) == 5 * attempt

InitMain ==
    /\ SessionsIdle
    /\ call = [stage |-> "main", pc |-> "delete_webhook", attempt |-> 0,
               webhook |-> "none", err |-> <<>>, waits |-> <<>>]

\* await bot.delete_webhook(...): a failure is logged and ignored; then
\* attempt = 1
delete_webhook(o) ==
    /\ call.stage = "main" /\ call.pc = "delete_webhook"
    /\ call' = [call EXCEPT !.webhook = o, !.pc = "start_polling", !.attempt = 1]
    /\ UNCHANGED sessionVars

\* await dp.start_polling(...) returned: break, main returns
PollingEnds ==
    /\ call.stage = "main" /\ call.pc = "start_polling"
    /\ call' = [call EXCEPT !.pc = "returned", !.err = <<>>]
    /\ UNCHANGED sessionVars

\* await dp.start_polling(...) raised e: a conflict is followed by
\* asyncio.sleep(wait), any other error is raised again
PollingRaises(e) ==
    /\ call.stage = "main" /\ call.pc = "start_polling"
    /\ call' = IF IsConflict(e)
               THEN [call EXCEPT !.pc = "sleep", !.err = e,
                                 !.waits = Append(@, RetryWait(call.attempt))]
               ELSE [call EXCEPT !.pc = "raised", !.err = e]
    /\ UNCHANGED sessionVars

\* asyncio.sleep(wait) returned: the next attempt, or the `else` of the loop
\* after attempt max_retries and the return of main
SleepEnds ==
    /\ call.stage = "main" /\ call.pc = "sleep"
    /\ call' = IF call.attempt < max_retries
               THEN [call EXCEPT !.pc = "start_polling", !.attempt = @ + 1]
               ELSE [call EXCEPT !.pc = "gave_up"]
    /\ UNCHANGED sessionVars

NextMain ==
    \/ \E o \in {"ok", "failed"} : delete_webhook(o)
    \/ PollingEnds
    \/ \E e \in ErrorTexts : PollingRaises(e)
    \/ SleepEnds

SpecMain == InitMain /\ [][NextMain]_vars

\* ============================================================= properties
AllCtx == 1..Len(contexts)
LoginPcs == {"al_ctx", "al_portal", "al_popup", "al_close"}

\* C1: whenever auto_login or get_password stores a new session over the
\* session that was stored for the user when that login began, the context of
\* the replaced session has been closed before the store.
C1_StoreClosesOld ==
    [][\A t \in Tasks :
         (/\ task[t].pc \in {"al_popup", "pw_popup"}
          /\ task'[t].pc \notin {"al_popup", "pw_popup"}
          /\ task[t].replaced # 0
          /\ user_sessions[task[t].user] = task[t].replaced
          /\ user_sessions'[task[t].user] = task[t].newctx)
         => ~contexts[task[t].replaced].open]_vars

\* C2: a request that found the stored session expired and obtained a session
\* ends having made exactly one login attempt and exactly one context close,
\* and the stale session's context is closed.
C2_ExpiredOneReauthOneClose ==
    \A t \in Tasks :
        (task[t].pc = "done" /\ task[t].expiredSeen # 0 /\ task[t].sess # 0)
        => /\ task[t].logins = 1
           /\ task[t].closes = 1
           /\ ~contexts[task[t].expiredSeen].open

\* C3: at most one browser operation is in flight on a page at any time.
C3_OneOperationInFlight ==
    \A c \in AllCtx : contexts[c].inflight <= 1

\* C4: no browser operation (extraction, navigation, probe, screenshot) is
\* ever started on a page or context that close_session has closed.
C4_NoUseAfterRelease == useAfterRelease = FALSE

\* C5: no context is closed more than once, and of the close_session calls
\* that run at the same time at most one holds a given session.
C5_ClosedAtMostOnce ==
    /\ \A c \in AllCtx : contexts[c].closes <= 1
    /\ \A t1, t2 \in Tasks :
         (t1 # t2 /\ task[t1].closing # 0) => task[t1].closing # task[t2].closing

\* C5 witness: on_shutdown holds the popped session of a user and is closing
\* it while the logout callback of the same user, which had passed its probe
\* on that session, has called close_session and found nothing to close.
C5_Witness ==
    \E t \in Handlers :
        /\ task[t].kind = "menu_handler" /\ task[t].data = "logout"
        /\ task[t].probeRes = "true"
        /\ task[t].pc = "done"
        /\ task[t].closes = 0
        /\ task[t].sess = task[ShutdownTask].closing
        /\ task[ShutdownTask].closing # 0
        /\ task[ShutdownTask].pc \in {"cs_page", "cs_ctx"}
        /\ contexts[task[ShutdownTask].closing].owner = task[t].user

\* C6: no request starts a login while a non-expired session is stored for
\* the user and no probe of the request has failed.
C6_ReuseLiveSession ==
    \A t \in Tasks : ~task[t].loginWhileLive

\* C7: when a handler's extraction has returned a record without error, the
\* session's expiry is later than it was when the extraction began.
C7_ExtractionSlidesExpiry ==
    \A t \in Tasks :
        (task[t].pc = "done" /\ task[t].rec = "ok")
        => task[t].expAfter > task[t].expBefore

\* C8: a browser operation on a session taken from user_sessions (not logged
\* in by this request) runs only after verify_logged_in was run on it.
C8_ProbeBeforeCachedUse ==
    \A t \in Tasks :
        (task[t].pc = "busy" /\ task[t].cached) => task[t].probed

\* C9: verify_logged_in never raises, returns false when the query fails and
\* true only when the marker is found.
C9_ProbeNeverRaises ==
    \A t \in Tasks :
        /\ task[t].pc # "crashed"
        /\ task[t].probeQ # "none"
           => /\ task[t].probeRes \in {"true", "false"}
              /\ (task[t].probeRes = "true") <=> (task[t].probeQ = "found")

\* C9 witness: the probe ran on a page that another task had closed, the
\* query raised and the probe returned false.
C9_Witness ==
    \E t \in Handlers :
        /\ task[t].probeQ = "raise" /\ task[t].probeRes = "false"
        /\ task[t].invalidSeen # 0
        /\ ~contexts[task[t].invalidSeen].pageOpen
        /\ task[t].closing # task[t].invalidSeen
        /\ task[t].closes = 0

\* C10: when a re-authentication replaces a session, whether found expired
\* or found invalid by the probe, the old session is no longer stored and its
\* context is closed by the time the login is attempted.
C10_InvalidSameAsExpired ==
    \A t \in Tasks :
        LET stale == IF task[t].invalidSeen # 0 THEN task[t].invalidSeen
                     ELSE task[t].expiredSeen
        IN  (task[t].pc \in LoginPcs /\ stale # 0)
            => /\ user_sessions[task[t].user] # stale
               /\ ~contexts[stale].open

\* C11: a login attempt that ended in an exception or a timeout is reported
\* neither with the value that reports a success nor with the value that
\* reports a rejection of the credentials.
C11_AmbiguousDistinct ==
    \A t \in Tasks :
        (task[t].portal = "exception" /\ task[t].loginRes # "none")
        => IF task[t].kind = "get_password"
           THEN task[t].loginRes \notin {get_password_answers("home"),
                                         get_password_answers("rejected")}
           ELSE task[t].loginRes \notin {auto_login_returns("home"),
                                         auto_login_returns("rejected")}

\* C12: after a login attempt that did not authenticate has returned, the
\* user has no entry in user_sessions, the context created for the attempt is
\* closed, and a handler has reported the failure.
C12_FailedLoginCleansUp ==
    \A t \in Tasks :
        (task[t].portal \in FailedOutcomes /\ task[t].loginRes # "none")
        => /\ user_sessions[task[t].user] = 0
           /\ ~contexts[task[t].lastctx].open
           /\ (t \in Handlers => task[t].reported)

\* C13: no request attempts a login after a login attempt of the same request
\* has failed; a handler whose login failed has reported it and is not
\* logging in.
C13_NoRetryAfterFailure ==
    \A t \in Tasks :
        /\ ~task[t].retried
        /\ (t \in Handlers /\ task[t].portal \in FailedOutcomes
               /\ task[t].loginRes # "none")
           => (task[t].reported /\ task[t].pc \notin LoginPcs)

\* C13 witness: menu_handler found the session expired, logged in, found the
\* new session invalid, closed it, and its second login failed; it has
\* answered and made no third attempt.
C13_Witness ==
    \E t \in Handlers :
        /\ task[t].kind = "menu_handler"
        /\ task[t].expiredSeen # 0 /\ task[t].invalidSeen # 0
        /\ task[t].logins = 2
        /\ task[t].portal \in FailedOutcomes
        /\ task[t].pc = "done" /\ task[t].reported

C15_UserIsolation ==
    /\ [](/\ \A u \in Users :
               user_sessions[u] # 0 => contexts[user_sessions[u]].owner = u
          /\ \A c \in AllCtx : contexts[c].storedFor \subseteq {contexts[c].owner}
          /\ \A u1, u2 \in Users :
               (u1 # u2 /\ user_sessions[u1] # 0)
               => user_sessions[u1] # user_sessions[u2]
          /\ \A t \in Tasks :
               /\ task[t].sess # 0 => contexts[task[t].sess].owner = task[t].user
               /\ task[t].newctx # 0 => contexts[task[t].newctx].owner = task[t].user
               /\ task[t].closing # 0 => contexts[task[t].closing].owner = task[t].user
               /\ task[t].snapFor \in {0, task[t].user})
    /\ [][\A u \in Users :
            user_sessions'[u] # user_sessions[u]
            => \E t \in Tasks : task'[t] # task[t] /\ task'[t].user = u]_vars

\* C15 witness: both chats have a stored session; the scheduler is extracting
\* on the page of chat 2 while a handler is extracting on the page of chat 1.
C15_Witness ==
    /\ \A u \in Users : user_sessions[u] # 0
    /\ task[SchedulerTask].pc = "busy" /\ task[SchedulerTask].user = 2
    /\ \E t \in Handlers :
         /\ task[t].pc = "busy" /\ task[t].user = 1
         /\ task[t].sess = user_sessions[1]
         /\ task[SchedulerTask].sess = user_sessions[2]

\* C19: when a handler's extraction has returned an error record, the session
\* it ran on is no longer stored for the user and its context is closed.
C19_FailedExtractionTearsDown ==
    \A t \in Handlers :
        (task[t].pc = "done" /\ task[t].rec = "error")
        => /\ user_sessions[task[t].user] # task[t].sess
           /\ ~contexts[task[t].sess].open

\* ---------------------------------------------- extractors and presenters
\* extractor fn runs a script on the page / calls the page's endpoint
UsesScript(fn) == fn # "extract_result"
UsesApi(fn) == fn \in {"extract_result", "extract_attendance"}

\* a browser call or the endpoint call of extractor fn failed on page p
SourceFailed(fn, p) ==
    \/ p.nav = "raise"
    \/ (UsesScript(fn) /\ p.script = "raise")
    \/ (UsesApi(fn) /\ p.api = "raise")

\* the record holds no row of its main list
ZeroRows(fn, data) ==
    CASE fn = "extract_profile"    -> \A k \in {"full_name", "father_name", "enrollment_no"} :
                                          Get(Get(data, "profile", EmptyDict), k, <<>>) = <<>>
      [] fn = "extract_result"     -> Get(data, "results", <<>>) = <<>>
                                      /\ Get(data, "performance", <<>>) = <<>>
      [] fn = "extract_fees"       -> Get(data, "fees", <<>>) = <<>>
      [] fn = "extract_attendance" -> Get(data, "monthly", <<>>) = <<>>
      [] fn = "extract_exam"       -> Get(data, "results", <<>>) = <<>>

\* the texts a record holds as data
Items(data, k) == {Get(data, k, <<>>)[i] : i \in 1..Len(Get(data, k, <<>>))}
Values(fn, data) ==
    CASE fn = "extract_profile" ->
           {Get(Get(data, "profile", EmptyDict), k, <<>>) :
              k \in {"full_name", "father_name", "enrollment_no"}}
      [] fn = "extract_result" ->
           {it.semester : it \in Items(data, "results") \cup Items(data, "performance")}
      [] fn = "extract_fees" ->
           UNION {{it.amount_display, it.pay_type, it.account_head, it.pay_date,
                   it.receipt_no, it.status} : it \in Items(data, "fees")}
      [] fn = "extract_attendance" ->
           {it.month : it \in Items(data, "monthly")}
           \cup {Get(Get(data, "student", EmptyDict), "name", <<>>)}
           \cup {it.days[1].status : it \in Items(data, "lectures")}
      [] fn = "extract_exam" ->
           UNION {{it.subject, it.marks, it.grade} : it \in Items(data, "results")}

HasPlaceholder(text) == \E i \in 1..Len(text) : text[i] \in {"{{", "}}"}

\* C16: an extractor call never lets an exception out, and when the
\* navigation, the script, or the endpoint call failed the record it returns
\* carries an error string.
C16_ExtractorNeverRaises ==
    call.stage \in {"record", "text"}
    => /\ ~IsRaise(call.data)
       /\ SourceFailed(call.fn, call.page) => Has(call.data, "error")

\* C17: a record without an error marker and with zero rows is returned only
\* when the page and the endpoint were read without a failure.
C17_NoDataVersusError ==
    (/\ call.stage = "record"
     /\ ~IsRaise(call.data)
     /\ ~Has(call.data, "error")
     /\ ZeroRows(call.fn, call.data))
    => ~SourceFailed(call.fn, call.page)

\* C18: the text a presenter produces for a record with an error marker is
\* not the text it produces for the record of an empty page.
C18_ErrorTextDiffers ==
    (call.stage = "text" /\ Has(call.data, "error"))
    => call.text # RunPresenter(call.fmt, RunExtractor(call.fn, EmptyPage))

\* C20: no text that a returned record holds as data contains "{{" or "}}".
C20_NoPlaceholderData ==
    (call.stage = "record" /\ ~IsRaise(call.data) /\ ~Has(call.data, "error"))
    => \A v \in Values(call.fn, call.data) : ~HasPlaceholder(v)

\* ---------------------------------------------------------- field parsing
\* the value v of the server's data parses as a number
Parses(v) == ~IsRaise(PyFloat(Strip(RemoveCommas(PyStr(v))), 1))

\* row is the row that the loop `kind` builds from the object c, apart from
\* the fields that hold a parsed number
RowOf(kind, row, c) ==
    IF kind = "monthly"
    THEN /\ row.month = Get(c, "month", <<>>)
         /\ row.present = Get(c, "present_lecture", [int |-> 0])
         /\ row.total_lectures = Get(c, "total_lecture_for_stud", [int |-> 0])
    ELSE /\ row.semester = Get(c, "semester_name", <<>>)
         /\ row.backlogs = Get(c, "Total_backlog", [int |-> 0])
         /\ ~Parses(Get(c, "ssrd_SGPA", [int |-> 0])) => row.sgpa = 0

\* C21: when the endpoint's list holds a value that does not parse or an item
\* that is no object, extract_result and extract_attendance still return a
\* record without an error marker in which every object of the list has its
\* row, an SGPA that does not parse being 0; and format_attendance_message
\* shows one line per month, a percentage that does not parse being 0.0.
C21_FieldFailureStaysLocal ==
    /\ (/\ call.stage = "record"
        /\ Has(call.page, "d")
        /\ call.fn \in {"extract_result", "extract_attendance"})
       => LET d    == call.page.d
              kind == IF call.fn = "extract_result" THEN "performance" ELSE "monthly"
              list == Get(call.data, kind, <<>>)
          IN  /\ ~Has(call.data, "error")
              /\ \A i \in 1..Len(d) :
                   IsDict(d[i]) => \E j \in 1..Len(list) : RowOf(kind, list[j], d[i])
    /\ (/\ call.stage = "text"
        /\ call.fmt = "format_attendance_message"
        /\ Get(call.data, "monthly", <<>>) # <<>>)
       => /\ Len(call.text[2]) = Len(call.data.monthly)
          /\ \A i \in 1..Len(call.data.monthly) :
               /\ call.text[2][i].month = call.data.monthly[i].month
               /\ ~Parses(call.data.monthly[i].percentage)
                  => call.text[2][i].pct = 0

\* the digits of a text, and the number of points in it
DigitsOf(text) == SelectSeq(text, IsDigit)
PointsOf(text) == Cardinality({i \in 1..Len(text) : text[i] = "."})
\* the number of digits behind the first point of a text
DigitsBehindPoint(text) ==
    LET p == CHOOSE i \in 1..Len(text) :
                 text[i] = "." /\ \A j \in 1..(i - 1) : text[j] # "."
    IN  Len(DigitsOf(SubSeq(text, p + 1, Len(text))))

ShownLines == call.text[2]
MonthsShown ==
    /\ call.stage = "text"
    /\ call.fmt = "format_attendance_message"
    /\ Get(call.data, "monthly", <<>>) # <<>>

C27_PercentageIsPresentOverTotal ==
    MonthsShown
    => \A i \in 1..Len(ShownLines) :
         LET m == call.data.monthly[i]
         IN  (Has(m.present, "int") /\ Has(m.total_lectures, "int")
              /\ m.total_lectures.int > 0)
             => /\ ShownLines[i].pct * m.total_lectures.int = 1000 * m.present.int
                /\ (m.present.int = 18 /\ m.total_lectures.int = 20)
                   => (ShownLines[i].pct = 900 /\ ShownLines[i].status = "Good")

\* ------------------------------------------------------------ determinism
\* C25: two calls of a presenter on the same record return the same text,
\* whatever the time of each call.
C25_PresenterDeterministic ==
    call.stage = "text2" => call.again = call.text

\* --------------------------------------------------------------- snapshots
\* C23: get_last_snapshot(u, pg) returns the payload of the row saved second
\* to last for (u, pg), and nothing when fewer than two rows were saved for
\* (u, pg); and every step leaves the rows already in the table as they are.
C23_PreviousSnapshot ==
    /\ [](call.stage = "db" /\ call.asked # <<>>
          => LET rows == RowsOf(call.snapshots, call.asked[1], call.asked[2])
                 prev == {i \in rows : Cardinality({j \in rows : j > i}) = 1}
             IN  IF Cardinality(rows) < 2 THEN call.got = PyNone
                 ELSE \A i \in prev : call.got = Loads(call.snapshots[i].data_json))
    /\ [][call.stage = "db"
          => /\ Len(call'.snapshots) >= Len(call.snapshots)
             /\ \A i \in 1..Len(call.snapshots) :
                  call'.snapshots[i] = call.snapshots[i]]_vars

OpenContexts == {c \in AllCtx : contexts[c].open}

\* a capacity below the number of contexts that a run creates
PoolCapacity == MaxCtx - 1

\* C28: the number of contexts open at the same time never exceeds the
\* capacity of the pool.
C28_PoolBounded == Cardinality(OpenContexts) <= PoolCapacity

\* C29: once BrowserManager.stop has been called the driver is stopped and
\* on_shutdown has returned normally, also when closing the browser raised.
C29_StopNotEscalated ==
    browser # "up" => (browser = "stopped" /\ task[ShutdownTask].pc = "sd_done")

MonthsBelow75(data) ==
    {i \in 1..Len(Get(data, "monthly", <<>>)) :
       FloatOrZero(Get(data.monthly[i], "percentage", [int |-> 0]), 1) < 750}

\* C31: when the attendance record that the scheduled check extracted for a
\* user with alerts enabled holds a month under 75 percent, the check has
\* sent that user an attendance alert and has written it to the alert log.
C31_LowMonthAlerts ==
    (call.stage = "alert_done" /\ MonthsBelow75(call.data) # {})
    => (call.sent # <<>> /\ call.alert_log # <<>>)

\* C32: the scheduled check never ends by an exception (a failed login or a
\* failed extraction of one user leaves the loop running), and whenever the
\* scheduler turns to a user, to log the user in or to extract the user's
\* attendance, that user's alerts are enabled.
C32_SchedulerSkipsDisabled ==
    [][/\ task'[SchedulerTask].pc # "crashed"
       /\ (/\ task'[SchedulerTask].user # task[SchedulerTask].user
           /\ task'[SchedulerTask].user \in Users)
          => alerts_on[task'[SchedulerTask].user] = 1]_vars

\* task t handles a logout request: /logout or the "logout" menu callback
HandlesLogout(t) ==
    \/ task[t].kind = "cmd_logout"
    \/ (task[t].kind = "menu_handler" /\ task[t].data = "logout")

\* C33: while a logout request is handled, by /logout or by the logout menu
\* callback, no login against the portal is attempted and no new context is
\* created, whether the user's session is live, expired or absent.
C33_LogoutNeverLogsIn ==
    \A t \in Handlers :
      HandlesLogout(t)
      => /\ task[t].pc \notin LoginPcs
         /\ task[t].logins = 0
         /\ task[t].newctx = 0

\* C34: in the step that completes a logout of task t, the user has no entry
\* in user_sessions, the context of the session that close_session removed
\* is closed, also when closing the page raised, and the stored credentials
\* and the alert flags are the ones before the step.
C34_LogoutClosesContext ==
    [][\A t \in Handlers :
         (task[t].pc # "done" /\ task'[t].pc = "done" /\ task'[t].ret = "logout")
         => /\ user_sessions'[task'[t].user] = 0
            /\ task[t].pc \in {"cs_page", "cs_ctx"}
               => ~contexts'[task[t].closing].open
            /\ creds' = creds
            /\ alerts_on' = alerts_on]_vars

\* chat u has a row in the users table
HasRow(u) == get_credentials(u) # NoCreds

\* C35: a chat that has a session has a credential row; every call of
\* toggle_alerts made by /alerts or by the toggle_alerts callback is made for
\* a chat with a row and returns the alert flag that is stored for the chat
\* after the call; and toggling twice gives back the flag the chat had.
C35_ToggleReturnsStoredFlag ==
    /\ \A u \in Users : user_sessions[u] # 0 => HasRow(u)
    /\ \A t \in Handlers :
         task[t].newState # -1
         => /\ HasRow(task[t].user)
            /\ task[t].pc = "done"
            /\ alerts_on[task[t].user] = task[t].newState
    /\ \A u \in Users :
         HasRow(u)
         => LET once  == toggle_alerts(alerts_on, creds, u)
                twice == toggle_alerts(once.al, creds, u)
            IN  /\ once.al[u] = once.ret
                /\ once.al[u] # alerts_on[u]
                /\ twice.al = alerts_on
                /\ twice.ret = alerts_on[u]

\* C35 witness: the toggle_alerts callback of a chat whose alerts were on has
\* returned "disabled", and the flag of the chat is off.
C35_Witness ==
    \E t \in Handlers :
      /\ task[t].kind = "menu_handler" /\ task[t].data = "toggle_alerts"
      /\ task[t].newState = 0
      /\ alerts_on[task[t].user] = 0

\* C36: the step in which get_password saves the credentials after a
\* successful login leaves the alert flag of a chat that had a row as it
\* was (a chat that had disabled its alerts still has them disabled) and
\* gives a chat without a row the flag 1.
C36_SaveKeepsAlertFlag ==
    [][\A t \in Handlers :
         (/\ task[t].pc = "pw_popup"
          /\ task'[t].pc = "done"
          /\ task'[t].loginRes = get_password_answers("home"))
         => LET u == task[t].user IN
            /\ get_credentials(u)' = task[t].cred
            /\ alerts_on'[u] = IF HasRow(u) THEN alerts_on[u] ELSE 1
            /\ \A v \in Users \ {u} : alerts_on'[v] = alerts_on[v]]_vars

\* C36 witness: a chat whose alerts are disabled has logged in with a
\* password, and its alerts are still disabled.
C36_Witness ==
    \E t \in Handlers :
      /\ task[t].kind = "get_password"
      /\ task[t].pc = "done"
      /\ task[t].loginRes = get_password_answers("home")
      /\ alerts_on[task[t].user] = 0

\* C37: when on_shutdown has completed, user_sessions is empty and every
\* context that was stored in it was closed before the browser was stopped,
\* also when a session was stored while the shutdown loop awaited a close.
C37_ShutdownClosesAll ==
    task[ShutdownTask].pc = "sd_done"
    => /\ \A u \in Users : user_sessions[u] = 0
       /\ \A c \in AllCtx : contexts[c].storedFor # {} => ~contexts[c].open

\* the waits of the attempts 1 .. n that failed with a conflict
RECURSIVE WaitsUpTo(_)
WaitsUpTo(n) == IF n = 0 THEN <<>> ELSE Append(WaitsUpTo(n - 1), 5 * n)

\* C38: main starts polling at most 10 times.  An attempt that fails with a
\* conflict error is followed by a wait of 5 times its number in seconds and,
\* below attempt 10, by the next attempt; an attempt that fails with another
\* error is raised again without a wait; an attempt that succeeds ends the
\* loop; after 10 conflicts main returns without raising.
C38_PollingLoopBounded ==
    call.pc # "delete_webhook"
    => /\ call.attempt \in 1..10
       /\ call.pc \in {"start_polling", "returned", "raised"}
          => call.waits = WaitsUpTo(call.attempt - 1)
       /\ call.pc = "sleep"
          => IsConflict(call.err) /\ call.waits = WaitsUpTo(call.attempt)
       /\ call.pc = "raised" => ~IsConflict(call.err)
       /\ call.pc = "gave_up"
          => /\ call.attempt = 10
             /\ IsConflict(call.err)
             /\ call.waits = WaitsUpTo(10)

\* C38 witness: the tenth attempt has failed with a conflict, main has
\* waited 50 seconds and has returned.
C38_Witness ==
    /\ call.stage = "main"
    /\ call.pc = "gave_up"
    /\ Len(call.waits) = 10
    /\ call.waits[10] = 50

\* C39: the dialogue state of a chat is "username" or "password" only while
\* the chat is asked for one of them: when a password message has been
\* handled the state of the chat is cleared, whatever the outcome of the
\* login; and when /start of a chat with stored credentials has been
\* handled, the chat is asked for a username only if the automatic login
\* failed.
C39_DialogueEnds ==
    \A t \in Handlers :
      /\ (task[t].kind = "get_password" /\ task[t].pc = "done")
         => dlg[task[t].user] = "none"
      /\ (task[t].kind = "cmd_start" /\ task[t].pc = "done" /\ task[t].cred # "")
         => (dlg[task[t].user] # "none"
             => task[t].loginRes = auto_login_returns("rejected"))
====
